---- MODULE Spec2Model ----
(***************************************************************************)
(* Emergency department case store (src/Emergency.cpp): an array of cases  *)
(* kept in ascending priority order, the case log data/emergency.txt and   *)
(* the intake feed data/patients.txt.                                      *)
(*                                                                         *)
(* Text is modelled as the program sees it: a string is a sequence of      *)
(* ASCII codes, a file is a sequence of lines, and formatting, comma       *)
(* splitting and stoi are computed character by character.                 *)
(***************************************************************************)
EXTENDS Integers, Sequences, FiniteSets, TLC

VARIABLES
    cases,      \* EmergencyDepartment::cases[0 .. size-1], as a sequence
    logFile,    \* data/emergency.txt: [exists, lines]
    feedFile,   \* data/patients.txt:  [exists, lines]
    pc,         \* "menu": the object is constructed; "terminated": an exception left the constructor
    lastOp,     \* history: the operation that produced this state and its outcome
    writeFailures, \* how often the log could not be opened for appending so far
    issued,     \* observer: the ids logEmergencyCase assigned in this session, by whether the append succeeded
    run,        \* observer: the current run of consecutive processCriticalCase calls
    pa,         \* the PatientAdmission object of main: [queue, front, rear, currentSize, nextId]
    ms,         \* the MedicalSupply object of main: [top_, nextId_], top_ being the list from the top down
    supplyFiles, \* data/medical_supplies.txt and medicalSupply.txt, and whether data/ exists: [dataDir, primary, fallback]
    ad,         \* the Ambulance object of main: [roster, nextId], roster being the circular list from tail->next (the head) to tail
    rosterFile, \* data/ambulances.txt: [exists, lines]
    rota        \* observer: the current run of consecutive rotations and the ids registerAmbulance gave in this session

vars == <<cases, logFile, feedFile, pc, lastOp, writeFailures, issued, run, pa, ms, supplyFiles,
          ad, rosterFile, rota>>

----------------------------------------------------------------------------
(* Bounds of the model.                                                    *)

\* Capacity of the case array (MAX_CASES and the literal 100 of the source), scaled down.
MAX_CASES == 3

\* No operation is taken that would make the case log longer than this.
MaxLogLines == 3

\* The log fails to open for appending at most this often.
MaxWriteFailures == 1

\* Capacity of the admission queue (MAX_PATIENTS = 100 in the source), scaled down.
MAX_PATIENTS == 3

\* No patient is admitted once nextId has passed this.
MaxPatientID == 5

\* No supply is added once nextId_ has passed this.
MaxSupplyID == 4

----------------------------------------------------------------------------
(* Strings.                                                                *)

Al == <<65, 108>>                                                   \* "Al"
AL == <<65, 76>>                                                    \* "AL"
Bo == <<66, 111>>                                                   \* "Bo"
HeartAttack == <<72, 101, 97, 114, 116, 32, 65, 116, 116, 97, 99, 107>>          \* "Heart Attack"
RoadAccident == <<82, 111, 97, 100, 32, 65, 99, 99, 105, 100, 101, 110, 116>>   \* "Road Accident"
AsthmaAttack == <<65, 115, 116, 104, 109, 97, 32, 65, 116, 116, 97, 99, 107>>   \* "Asthma Attack"
SevereBurn == <<83, 101, 118, 101, 114, 101, 32, 66, 117, 114, 110>>            \* "Severe Burn"
Flu == <<70, 108, 117>>                                             \* "Flu"
FLU == <<70, 76, 85>>
Fever == <<70, 101, 118, 101, 114>>                                 \* "Fever"
JaneDoe == <<74, 97, 110, 101, 32, 68, 111, 101>>                  \* "Jane Doe"
SamLee == <<83, 97, 109, 32, 76, 101, 101>>                         \* "Sam Lee"
Other == <<79, 116, 104, 101, 114>>                                 \* "Other"
NotANumber == <<120>>                                               \* "x"

\* string EmergencyDepartment::toLowerCase(string str)
toLowerCase(str) ==
    [i \in 1..Len(str) |-> IF str[i] >= 65 /\ str[i] <= 90 THEN str[i] + 32 ELSE str[i]]

\* Index of the first delim in s at or after i, 0 when there is none.
RECURSIVE FindDelim(_, _, _)
FindDelim(s, delim, i) ==
    IF i > Len(s) THEN 0
    ELSE IF s[i] = delim THEN i
    ELSE FindDelim(s, delim, i + 1)

\* std::getline(ss, str, delim) on a stringstream whose unread part is ss:
\* fails when nothing is left; otherwise takes the text up to the delimiter
\* (which it consumes) or up to the end.
getline(ss, delim) ==
    IF ss = <<>> THEN [ok |-> FALSE, str |-> <<>>, rest |-> <<>>]
    ELSE LET k == FindDelim(ss, delim, 1) IN
         IF k = 0 THEN [ok |-> TRUE, str |-> ss, rest |-> <<>>]
         ELSE [ok |-> TRUE, str |-> SubSeq(ss, 1, k - 1), rest |-> SubSeq(ss, k + 1, Len(ss))]

RECURSIVE SkipSpace(_, _)
SkipSpace(s, i) ==
    IF i <= Len(s) /\ s[i] \in {32, 9, 10, 11, 12, 13} THEN SkipSpace(s, i + 1) ELSE i

\* The decimal digits of s from i on: [val, next].
RECURSIVE ReadDigits(_, _, _)
ReadDigits(s, i, acc) ==
    IF i <= Len(s) /\ s[i] \in 48..57
    THEN ReadDigits(s, i + 1, acc * 10 + (s[i] - 48))
    ELSE [val |-> acc, next |-> i]

\* std::stoi(str): leading white space, an optional sign, then digits; throws
\* std::invalid_argument (ok = FALSE) when no digit is there. Text after the
\* digits is ignored. StoiValue: the digits d were read from index j on.
StoiValue(neg, j, d) ==
    IF d.next = j THEN [ok |-> FALSE, val |-> 0]
    ELSE [ok |-> TRUE, val |-> IF neg THEN 0 - d.val ELSE d.val]

\* The sign, if any, is at index i.
StoiSigned(str, i, signed) ==
    StoiValue(signed /\ str[i] = 45, IF signed THEN i + 1 ELSE i,
              ReadDigits(str, IF signed THEN i + 1 ELSE i, 0))

StoiFrom(str, i) == StoiSigned(str, i, i <= Len(str) /\ str[i] \in {43, 45})

stoi(str) == StoiFrom(str, SkipSpace(str, 1))

RECURSIVE Digits(_)
Digits(n) == IF n < 10 THEN <<48 + n>> ELSE Digits(n \div 10) \o <<48 + (n % 10)>>

\* ostream << int
IntToText(n) == IF n < 0 THEN <<45>> \o Digits(0 - n) ELSE Digits(n)

\* The fields joined by commas: how the files that exist before startup are written down here.
RECURSIVE CsvLine(_)
CsvLine(fields) ==
    IF Len(fields) = 0 THEN <<>>
    ELSE IF Len(fields) = 1 THEN fields[1]
    ELSE fields[1] \o <<44>> \o CsvLine(Tail(fields))

----------------------------------------------------------------------------
(* Cases and files.                                                        *)

\* struct EmergencyCase
EmergencyCase(id, name, type, priority) ==
    [patientID |-> id, patientName |-> name, emergencyType |-> type, priority |-> priority]

size == Len(cases)

NoFile == [exists |-> FALSE, lines |-> <<>>]
File(lines) == [exists |-> TRUE, lines |-> lines]

\* struct Patient
Patient(id, name, condition) == [id |-> id, name |-> name, condition |-> condition]

\* A slot of queue[] that was never assigned: empty strings, and an id that is never read.
NoPatient == Patient(0, <<>>, <<>>)

\* PatientAdmission() : front(0), rear(0), currentSize(0), nextId(1), before loadFromFile.
NewAdmission ==
    [queue |-> [i \in 0..(MAX_PATIENTS - 1) |-> NoPatient],
     front |-> 0, rear |-> 0, currentSize |-> 0, nextId |-> 1]

\* MedicalSupply() : top_(nullptr), nextId_(1), before loadFromFile.
NewSupplyStack == [top_ |-> <<>>, nextId_ |-> 1]

\* The directory data/ is there and neither supply file is on disk.
NoSupplyFiles == [dataDir |-> TRUE, primary |-> NoFile, fallback |-> NoFile]

\* Ambulance() : tail(nullptr), nextId(1), before loadFromFile.
NewRoster == [roster |-> <<>>, nextId |-> 1]

\* No rotation and no registration has been observed.
NoRota == [start |-> <<>>, heads |-> <<>>, given |-> {}]

\* The ambulance dispatcher is not running: the object stays as constructed without a file.
AmbulanceNotStarted == ad = NewRoster /\ rosterFile = NoFile /\ rota = NoRota
AmbulanceIdle == UNCHANGED <<ad, rosterFile, rota>>

\* The emergency department is taken on its own: the other objects stay as constructed without files.
OthersNotStarted ==
    /\ pa = NewAdmission /\ ms = NewSupplyStack /\ supplyFiles = NoSupplyFiles
    /\ AmbulanceNotStarted
OthersIdle == UNCHANGED <<pa, ms, supplyFiles>> /\ AmbulanceIdle

\* A line without the priority field.
FormatCaseNoPriority(c) ==
    IntToText(c.patientID) \o <<44>> \o c.patientName \o <<44>> \o c.emergencyType

\* The line saveCaseToFile writes for a case.
FormatCase(c) ==
    IntToText(c.patientID) \o <<44>> \o c.patientName \o <<44>> \o c.emergencyType
        \o <<44>> \o IntToText(c.priority)

\* A save that leaves the file as it is.
saveCaseToFileDropped(file, newCase, canWrite) == file

\* void EmergencyDepartment::saveCaseToFile(const EmergencyCase& newCase):
\* appends one line (creating the file), or does nothing when the file cannot be opened.
saveCaseToFile(file, newCase, canWrite) ==
    IF ~canWrite THEN file
    ELSE File(Append(file.lines, FormatCase(newCase)))

\* The inner loop of sortCases: j runs over 1 .. last (one-based).
RECURSIVE BubblePass(_, _, _)
BubblePass(cs, j, last) ==
    IF j > last THEN cs
    ELSE BubblePass(
            IF cs[j].priority > cs[j + 1].priority
            THEN [cs EXCEPT ![j] = cs[j + 1], ![j + 1] = cs[j]]
            ELSE cs,
            j + 1, last)

RECURSIVE BubbleSort(_, _)
BubbleSort(cs, i) ==
    IF i >= Len(cs) - 1 THEN cs
    ELSE BubbleSort(BubblePass(cs, 1, Len(cs) - i - 1), i + 1)

\* A bubble sort that also swaps neighbours of equal priority.
RECURSIVE BubblePassEqual(_, _, _)
BubblePassEqual(cs, j, last) ==
    IF j > last THEN cs
    ELSE BubblePassEqual(
            IF cs[j].priority >= cs[j + 1].priority
            THEN [cs EXCEPT ![j] = cs[j + 1], ![j + 1] = cs[j]]
            ELSE cs,
            j + 1, last)

RECURSIVE BubbleSortEqual(_, _)
BubbleSortEqual(cs, i) ==
    IF i >= Len(cs) - 1 THEN cs
    ELSE BubbleSortEqual(BubblePassEqual(cs, 1, Len(cs) - i - 1), i + 1)

sortCasesUnstable(cs) == BubbleSortEqual(cs, 0)

\* A sort that does nothing.
sortCasesSkipped(cs) == cs

\* void EmergencyDepartment::sortCases()
sortCases(cs) == BubbleSort(cs, 0)

\* An insert that never takes place.
InsertParsedNever(r) == {}

\* existingIDs.insert(stoi(idStr)) inside try/catch: nothing is inserted when stoi throws.
InsertParsed(r) == IF r.ok THEN {r.val} ELSE {}

\* if (getline(ss, idStr, ',')) ...: f is what getline returned.
InsertFirstField(f) == IF f.ok THEN InsertParsed(stoi(f.str)) ELSE {}

\* The ids generateNextID collects from the log: the first field of every line, where stoi accepts it.
RECURSIVE CollectIDs(_, _)
CollectIDs(lines, i) ==
    IF i > Len(lines) THEN {}
    ELSE InsertFirstField(getline(lines[i], 44)) \cup CollectIDs(lines, i + 1)

RECURSIVE FirstFree(_, _)
FirstFree(ids, newID) == IF newID \in ids THEN FirstFree(ids, newID + 1) ELSE newID

\* A store whose ids are not looked at.
StoreIDsForgotten(cs) == {}

StoreIDs(cs) == {cs[i].patientID : i \in 1..Len(cs)}

\* An allocator that looks at the store instead of the log.
generateNextIDFromStore(file, cs) == FirstFree(StoreIDs(cs), 1)

\* int EmergencyDepartment::generateNextID(): reads the log (a log that cannot
\* be opened yields no line), never the store.
generateNextID(file, cs) == FirstFree(CollectIDs(file.lines, 1), 1)

----------------------------------------------------------------------------
(* Startup: the constructor loads the log, then imports the feed.          *)

\* A chain getline(ss, f1, ',') && getline(ss, f2, ',') && ... of n calls on
\* the stringstream of one line: the fields read, up to the first call that
\* fails. The chain as a whole succeeds when n fields were read.
RECURSIVE Fields(_, _)
FieldsAfter(g, n) == IF g.ok THEN <<g.str>> \o Fields(g.rest, n - 1) ELSE <<>>
Fields(ss, n) == IF n = 0 THEN <<>> ELSE FieldsAfter(getline(ss, 44), n)

\* A capacity test that always finds room.
HasRoomAlways(cs) == TRUE

\* if (size < 100): the store can take one more case.
HasRoom(cs) == Len(cs) < MAX_CASES

\* The four getline calls of loadExistingEmergencies on one line.
LogFields(line) == Fields(line, 4)

\* The while loop of loadExistingEmergencies from line i on; a stoi that
\* throws leaves the loop (and the constructor) with threw = TRUE.
RECURSIVE LoadLog(_, _, _)

\* The body of the if once both stoi calls have returned id and priority.
LoadParsed(lines, i, acc, f, id, priority) ==
    IF ~id.ok \/ ~priority.ok THEN [threw |-> TRUE, cases |-> acc]
    ELSE LoadLog(lines, i + 1,
                 IF HasRoom(acc)
                 THEN Append(acc, EmergencyCase(id.val, f[2], f[3], priority.val))
                 ELSE acc)

\* One turn of the loop: f holds the fields read from line i.
LoadLine(lines, i, acc, f) ==
    IF Len(f) < 4 THEN LoadLog(lines, i + 1, acc)
    ELSE LoadParsed(lines, i, acc, f, stoi(f[1]), stoi(f[4]))

LoadLog(lines, i, acc) ==
    IF i > Len(lines) THEN [threw |-> FALSE, cases |-> acc]
    ELSE LoadLine(lines, i, acc, LogFields(lines[i]))

\* file.close(); sortCases(): r is what the loop left.
SortLoaded(r) == IF r.threw THEN r ELSE [threw |-> FALSE, cases |-> sortCases(r.cases)]

\* void EmergencyDepartment::loadExistingEmergencies(), called on the empty store.
loadExistingEmergencies(file) ==
    IF ~file.exists THEN [threw |-> FALSE, cases |-> <<>>]
    ELSE SortLoaded(LoadLog(file.lines, 1, <<>>))

\* The three getline calls of loadPatientsFromFile on one line.
FeedFields(line) == Fields(line, 3)

\* The while loop of loadPatientsFromFile from line i on.
RECURSIVE ImportFeed(_, _, _, _, _, _)

\* An import that does not note the ids it has imported.
ImportParsedForgetful(lines, i, cs, existingIDs, log, canWrite, pid, temp) ==
    IF ~pid.ok THEN [threw |-> TRUE, cases |-> cs, log |-> log]
    ELSE IF pid.val \notin existingIDs /\ HasRoom(cs)
         THEN ImportFeed(lines, i + 1, Append(cs, temp), existingIDs,
                         saveCaseToFile(log, temp, canWrite), canWrite)
         ELSE ImportFeed(lines, i + 1, cs, existingIDs, log, canWrite)

\* The body of the if once stoi has returned pid, temp being the case built from the line.
ImportParsed(lines, i, cs, existingIDs, log, canWrite, pid, temp) ==
    IF ~pid.ok THEN [threw |-> TRUE, cases |-> cs, log |-> log]
    ELSE IF pid.val \notin existingIDs /\ HasRoom(cs)
         THEN ImportFeed(lines, i + 1, Append(cs, temp), existingIDs \cup {pid.val},
                         saveCaseToFile(log, temp, canWrite), canWrite)
         ELSE ImportFeed(lines, i + 1, cs, existingIDs, log, canWrite)

\* int pid = stoi(idStr), with the case the line describes (priority 6).
ImportID(lines, i, cs, existingIDs, log, canWrite, f, pid) ==
    ImportParsed(lines, i, cs, existingIDs, log, canWrite, pid,
                 EmergencyCase(pid.val, f[2], f[3], 6))

\* One turn of the loop: f holds the fields read from line i.
ImportLine(lines, i, cs, existingIDs, log, canWrite, f) ==
    IF Len(f) < 3 THEN ImportFeed(lines, i + 1, cs, existingIDs, log, canWrite)
    ELSE ImportID(lines, i, cs, existingIDs, log, canWrite, f, stoi(f[1]))

ImportFeed(lines, i, cs, existingIDs, log, canWrite) ==
    IF i > Len(lines) THEN [threw |-> FALSE, cases |-> cs, log |-> log]
    ELSE ImportLine(lines, i, cs, existingIDs, log, canWrite, FeedFields(lines[i]))

\* file.close(); sortCases(): r is what the loop left.
SortImported(r) ==
    IF r.threw THEN r ELSE [threw |-> FALSE, cases |-> sortCases(r.cases), log |-> r.log]

\* An import that takes existingIDs to be empty: every feed line is new.
loadPatientsNoDedup(cs, log, feed, canWrite) ==
    IF ~feed.exists THEN [threw |-> FALSE, cases |-> cs, log |-> log]
    ELSE SortImported(ImportFeed(feed.lines, 1, cs, {}, log, canWrite))

\* void EmergencyDepartment::loadPatientsFromFile()
loadPatientsFromFile(cs, log, feed, canWrite) ==
    IF ~feed.exists THEN [threw |-> FALSE, cases |-> cs, log |-> log]
    ELSE SortImported(ImportFeed(feed.lines, 1, cs, StoreIDs(cs), log, canWrite))

\* What construction leaves once loadPatientsFromFile has returned b: an
\* exception leaves no object; what was appended stays on disk.
Constructed(b) == IF b.threw THEN [threw |-> TRUE, cases |-> <<>>, log |-> b.log] ELSE b

\* The constructor after loadExistingEmergencies has returned a.
ConstructFrom(a, log, feed, canWrite) ==
    IF a.threw THEN [threw |-> TRUE, cases |-> <<>>, log |-> log]
    ELSE Constructed(loadPatientsFromFile(a.cases, log, feed, canWrite))

\* EmergencyDepartment::EmergencyDepartment(): the store and the log after construction.
Constructor(log, feed, canWrite) ==
    ConstructFrom(loadExistingEmergencies(log), log, feed, canWrite)

----------------------------------------------------------------------------
(* Inputs.                                                                 *)

\* Case logs found on disk at the first startup: none, an empty one, one
\* not in priority order, one with a short line and an id that occurs
\* twice, one whose priority field is no number.
InitLogs ==
    { NoFile,
      File(<<>>),
      File(<< CsvLine(<<IntToText(1), Al, Flu, IntToText(8)>>),
              CsvLine(<<IntToText(2), Bo, HeartAttack, IntToText(1)>>) >>),
      File(<< CsvLine(<<IntToText(3), Al, Flu>>),
              CsvLine(<<IntToText(2), Bo, Flu, IntToText(6)>>),
              CsvLine(<<IntToText(2), AL, Flu, IntToText(1)>>) >>),
      File(<< CsvLine(<<IntToText(1), Al, Flu, NotANumber>>) >>) }

\* The case logs of a first installation.
FreshLogs == {NoFile, File(<<>>)}

\* Intake feeds (id,name,condition) written by the admission module.
Feeds ==
    { NoFile,
      File(<< CsvLine(<<IntToText(1), Al, Fever>>) >>),
      File(<< CsvLine(<<IntToText(2), Bo, Fever>>),
              CsvLine(<<IntToText(2), AL, Fever>>) >>),
      File(<< CsvLine(<<IntToText(1), Al, Fever>>),
              CsvLine(<<NotANumber, Bo, Fever>>) >>) }

\* A case log with one record more than the store can hold, the priorities
\* falling from line to line.
BigLog ==
    File([i \in 1..(MAX_CASES + 1) |->
             CsvLine(<<IntToText(i), Al, Flu, IntToText(MAX_CASES + 2 - i)>>)])

\* A case log whose first line has an id field that is no number.
BadIdLog ==
    File(<< CsvLine(<<NotANumber, Al, Flu, IntToText(8)>>),
            CsvLine(<<IntToText(2), Bo, Flu, IntToText(6)>>) >>)

\* A case log whose record has four fields and a priority above 10.
OutOfRangeLog == File(<< CsvLine(<<IntToText(1), Al, Flu, IntToText(15)>>) >>)

\* The case logs of InitLogs and the three above.
StartupLogs == InitLogs \cup {BigLog, BadIdLog, OutOfRangeLog}

\* A feed with one patient more than the store can hold.
BigFeed == File([i \in 1..(MAX_CASES + 1) |-> CsvLine(<<IntToText(i + 1), Bo, Fever>>)])

\* A feed whose first line has an id field that is no number.
BadIdFeed ==
    File(<< CsvLine(<<NotANumber, Bo, Fever>>),
            CsvLine(<<IntToText(1), Al, Fever>>) >>)

\* The feeds of Feeds and the two above.
StartupFeeds == Feeds \cup {BigFeed, BadIdFeed}

\* Cases with names and types free of commas, an empty name among them.
CaseValues ==
    {EmergencyCase(id, name, type, priority) :
        id \in {1, 12}, name \in {<<>>, Al}, type \in {HeartAttack}, priority \in {1, 6, 10}}

\* The stores of at most MAX_CASES such cases, in any order.
StoreContents == UNION {[1..n -> CaseValues] : n \in 0..MAX_CASES}

\* What the operator types at "Enter Patient Name" in logEmergencyCase.
NameInputs == {<<>>, Al}

\* What the operator types at "Enter Patient Name" in updatePriority.
UpdateNames == {AL, Bo}

\* What getValidatedInput(1, 5, ...) returns for the type menu (-1: gave up).
TypeChoices == {-1, 1, 5}

\* What getValidatedInput(1, 10, ...) returns for the priority of a custom type (-1: gave up).
CustomPriorities == {-1, 6}

\* What getValidatedInput(1, 10, ...) returns for the new priority in updatePriority.
NewPriorities == {-1, 1, 6}

\* What the operator types at "Enter Patient Name to Search".
SearchNames == {AL, Bo}

\* What the operator types at "Enter Emergency Type to Search".
SearchTypes == {FLU, RoadAccident}

\* What the operator types at "Enter Custom Type".
CustomTypes == {Flu}

\* The inputs of the two logEmergencyCase calls "Jane Doe, Heart Attack" and
\* "Sam Lee, Other, priority 8", and every choice of the type menu.
TableNames == {JaneDoe, SamLee}
TableChoices == {-1, 1, 2, 3, 4, 5}
TableCustomTypes == {Other}
TablePriorities == {-1, 8}

\* Whether data/emergency.txt can be opened for appending during one operation.
WriteOutcomes == BOOLEAN

----------------------------------------------------------------------------
(* History records.                                                        *)

\* idx: the index (one-based) the operation acted on, in the store before it;
\* pos: the index of that case in the store after it; p: the priority entered
\* or derived; method: how updatePriority selected the case (1 by number, 2 by name).
\* For a search, method tells which search it was (1 by name, 2 by type),
\* idx is what the search printed and pos what was typed.
Op(op, outcome, idx, pos, p, method) ==
    [op |-> op, outcome |-> outcome, idx |-> idx, pos |-> pos, p |-> p, method |-> method]

NewRun(cs) == [n0 |-> Len(cs), calls |-> 0]

NewSession == [saved |-> {}, unsaved |-> {}]

----------------------------------------------------------------------------
(* What startup prints.                                                    *)

Message(text, count) == [text |-> text, count |-> count]

\* The line loadExistingEmergencies prints, a being what it returned.
LoadOutput(file, a) ==
    IF ~file.exists THEN <<Message("[!] No existing emergency data found.", 0)>>
    ELSE <<Message("[v] Loaded existing emergency cases.", Len(a.cases))>>

\* The line loadPatientsFromFile prints when every append succeeds, b being
\* what it returned on the store a.cases.
ImportOutput(feed, a, b) ==
    IF ~feed.exists
    THEN <<Message("[!] patients.txt not found. Skipping new patient import.", 0)>>
    ELSE <<Message("[v] Added new unique patients from patients.txt.",
                   Len(b.cases) - Len(a.cases))>>

ConstructorOutput(log, feed, a) ==
    LoadOutput(log, a) \o ImportOutput(feed, a, loadPatientsFromFile(a.cases, log, feed, TRUE))

\* What a constructor that returns prints on the files log and feed.
StartupOutput(log, feed) == ConstructorOutput(log, feed, loadExistingEmergencies(log))

\* The one message of the class that reports a full store (logEmergencyCase).
CapacityMessages == {"[!] Maximum case limit reached."}

----------------------------------------------------------------------------
(* Operations.                                                             *)

\* The write outcomes still possible: the log opens, or (within the bound) it does not.
Outcomes(writes) == {w \in writes : w \/ writeFailures < MaxWriteFailures}

\* The state in which the constructor, having returned r, leaves a program started on feed.
StartedWith(r, feed, canWrite) ==
    /\ cases = r.cases
    /\ logFile = r.log
    /\ feedFile = feed
    /\ pc = IF r.threw THEN "terminated" ELSE "menu"
    /\ lastOp = Op("startup", IF r.threw THEN "threw" ELSE "ok", 0, 0, 0, 0)
    /\ writeFailures = IF canWrite THEN 0 ELSE 1
    /\ issued = NewSession
    /\ run = NewRun(r.cases)
    /\ OthersNotStarted

\* The state after the constructor has run on the files log and feed.
Started(log, feed, canWrite) == StartedWith(Constructor(log, feed, canWrite), feed, canWrite)

\* A write outcome counts where the constructor appends something.
InitFrom(logs, feeds, writes) ==
    \E log \in logs, feed \in feeds, canWrite \in writes :
        /\ canWrite \/ Constructor(log, feed, TRUE).log # log
        /\ Started(log, feed, canWrite)

Init == InitFrom(InitLogs, Feeds, {TRUE})

\* The program has not been started yet: the files are on disk, there is no store.
Off(logs, feeds) ==
    \E log \in logs, feed \in feeds :
        /\ cases = <<>>
        /\ logFile = log
        /\ feedFile = feed
        /\ pc = "off"
        /\ lastOp = Op("off", "ok", 0, 0, 0, 0)
        /\ writeFailures = 0
        /\ issued = NewSession
        /\ run = NewRun(<<>>)
        /\ OthersNotStarted

\* The step to the state in which the constructor, having returned r, leaves the program.
RestartWith(r, canWrite) ==
    /\ r.log = logFile \/ Len(r.log.lines) <= MaxLogLines
    /\ cases' = r.cases
    /\ logFile' = r.log
    /\ pc' = IF r.threw THEN "terminated" ELSE "menu"
    /\ lastOp' = Op("startup", IF r.threw THEN "threw" ELSE "ok", 0, 0, 0, 0)
    /\ writeFailures' = IF canWrite THEN writeFailures ELSE writeFailures + 1
    /\ UNCHANGED feedFile

\* The program ends and is started again on the files as they are.
Restart(writes) ==
    \E canWrite \in Outcomes(writes) :
        /\ canWrite \/ Constructor(logFile, feedFile, TRUE).log # logFile
        /\ RestartWith(Constructor(logFile, feedFile, canWrite), canWrite)

\* A return that empties the store on the way.
AbortedClearing(op) ==
    /\ lastOp' = Op(op, "aborted", 0, 0, 0, 0)
    /\ cases' = <<>>
    /\ UNCHANGED <<logFile, feedFile, pc, writeFailures>>

\* An operation that returns without changing the store or the log.
Aborted(op) ==
    /\ lastOp' = Op(op, "aborted", 0, 0, 0, 0)
    /\ UNCHANGED <<cases, logFile, feedFile, pc, writeFailures>>

\* The switch of logEmergencyCase: type and priority of the new case.
TypeOf(typeChoice, customType) ==
    CASE typeChoice = 1 -> HeartAttack
      [] typeChoice = 2 -> RoadAccident
      [] typeChoice = 3 -> AsthmaAttack
      [] typeChoice = 4 -> SevereBurn
      [] OTHER -> customType

\* A table whose priorities are one too high.
PriorityOfShifted(typeChoice, customPriority) ==
    CASE typeChoice = 1 -> 2
      [] typeChoice = 2 -> 3
      [] typeChoice = 3 -> 4
      [] typeChoice = 4 -> 5
      [] OTHER -> customPriority

PriorityOf(typeChoice, customPriority) ==
    CASE typeChoice = 1 -> 1
      [] typeChoice = 2 -> 2
      [] typeChoice = 3 -> 3
      [] typeChoice = 4 -> 4
      [] OTHER -> customPriority

\* The insertion loop of logEmergencyCase: the index (one-based) after which
\* the new case goes, scanning from the end over the cases with a greater priority.
RECURSIVE ShiftFrom(_, _, _)
ShiftFrom(cs, i, priority) ==
    IF i >= 1 /\ cs[i].priority > priority THEN ShiftFrom(cs, i - 1, priority) ELSE i

\* An insertion loop that also shifts the cases of equal priority.
RECURSIVE ShiftFromEqual(_, _, _)
ShiftFromEqual(cs, i, priority) ==
    IF i >= 1 /\ cs[i].priority >= priority THEN ShiftFromEqual(cs, i - 1, priority) ELSE i

InsertIndexBeforeEqual(cs, newCase) == ShiftFromEqual(cs, Len(cs), newCase.priority) + 1

\* The index (one-based) at which logEmergencyCase stores the new case.
InsertIndex(cs, newCase) == ShiftFrom(cs, Len(cs), newCase.priority) + 1

\* An insertion that overwrites the case at index i instead of shifting it.
InsertAtReplacing(cs, i, newCase) ==
    IF i <= Len(cs) THEN [cs EXCEPT ![i] = newCase] ELSE Append(cs, newCase)

\* The shift of the cases from index i on and the store of the new case at i.
InsertAt(cs, i, newCase) == SubSeq(cs, 1, i - 1) \o <<newCase>> \o SubSeq(cs, i, Len(cs))

\* The end of logEmergencyCase: the new case is stored at index i and log is
\* what saveCaseToFile leaves.
LogCaseAt(newCase, canWrite, i, log) ==
    /\ Len(log.lines) <= MaxLogLines
    /\ cases' = InsertAt(cases, i, newCase)
    /\ logFile' = log
    /\ lastOp' = Op("log", "ok", i, i, newCase.priority, 0)
    /\ writeFailures' = IF canWrite THEN writeFailures ELSE writeFailures + 1
    /\ UNCHANGED <<feedFile, pc>>

\* The insertion and saveCaseToFile.
LogCase(newCase, canWrite) ==
    LogCaseAt(newCase, canWrite, InsertIndex(cases, newCase),
              saveCaseToFile(logFile, newCase, canWrite))

\* A capacity test that never finds the store full.
StoreFullNever(cs) == FALSE

\* if (size >= 100): the store can take no more case.
StoreFull(cs) == Len(cs) >= MAX_CASES

\* "[!] Maximum case limit reached.": logEmergencyCase returns with the store and the log as they were.
Rejected(op) ==
    /\ lastOp' = Op(op, "full", 0, 0, 0, 0)
    /\ UNCHANGED <<cases, logFile, feedFile, pc, writeFailures>>

\* void EmergencyDepartment::logEmergencyCase(), the operator typing a name
\* of names, a choice of typeChoices and, for choice 5, a type of customTypes
\* and a priority of customPriorities.
logEmergencyCaseWith(names, typeChoices, customTypes, customPriorities, writes) ==
    /\ pc = "menu"
    /\ IF StoreFull(cases) THEN Rejected("log")
       ELSE \E name \in names :
            IF name = <<>> THEN Aborted("log")
            ELSE \E typeChoice \in typeChoices :
                 IF typeChoice = -1 THEN Aborted("log")
                 ELSE \E customType \in customTypes, customPriority \in customPriorities :
                      IF typeChoice = 5 /\ customPriority = -1 THEN Aborted("log")
                      ELSE \E canWrite \in Outcomes(writes) :
                           LogCase(EmergencyCase(generateNextID(logFile, cases), name,
                                                 TypeOf(typeChoice, customType),
                                                 PriorityOf(typeChoice, customPriority)),
                                   canWrite)

\* void EmergencyDepartment::logEmergencyCase()
logEmergencyCase(writes) ==
    logEmergencyCaseWith(NameInputs, TypeChoices, CustomTypes, CustomPriorities, writes)

\* A removal that takes the last case.
RemoveLast(cs) == [i \in 1..(Len(cs) - 1) |-> cs[i]]

\* A shift loop that stops one case early.
RemoveFrontShortShift(cs) ==
    [i \in 1..(Len(cs) - 1) |-> IF i < Len(cs) - 1 THEN cs[i + 1] ELSE cs[i]]

\* The shift loop of processCriticalCase and size--.
RemoveFront(cs) == [i \in 1..(Len(cs) - 1) |-> cs[i + 1]]

\* void EmergencyDepartment::processCriticalCase()
processCriticalCase ==
    /\ pc = "menu"
    /\ IF size = 0
       THEN /\ lastOp' = Op("process", "empty", 0, 0, 0, 0)
            /\ UNCHANGED cases
       ELSE /\ lastOp' = Op("process", "removed", 1, 0, 0, 0)
            /\ cases' = RemoveFront(cases)
    /\ UNCHANGED <<logFile, feedFile, pc, writeFailures>>

\* A search by name that keeps the last case whose name matches.
LastByName(cs, lowerName, i) ==
    IF \E k \in i..Len(cs) : toLowerCase(cs[k].patientName) = lowerName
    THEN CHOOSE k \in i..Len(cs) :
             /\ toLowerCase(cs[k].patientName) = lowerName
             /\ \A n \in (k + 1)..Len(cs) : toLowerCase(cs[n].patientName) # lowerName
    ELSE 0

\* The search loop of updatePriority by name: the first index whose name matches, 0 if none.
RECURSIVE FirstByName(_, _, _)
FirstByName(cs, lowerName, i) ==
    IF i > Len(cs) THEN 0
    ELSE IF toLowerCase(cs[i].patientName) = lowerName THEN i
    ELSE FirstByName(cs, lowerName, i + 1)

\* An update that assigns the priority and leaves the array as it is.
UpdateAtNoSort(cs, i, newP) ==
    [cases |-> [cs EXCEPT ![i].priority = newP], from |-> [k \in 1..Len(cs) |-> k]]

\* The store after sortCases, sorted being its cases as pairs [priority, from].
Reordered(cs, sorted) ==
    [cases |-> [k \in 1..Len(cs) |->
                   [cs[sorted[k].from] EXCEPT !.priority = sorted[k].priority]],
     from |-> [k \in 1..Len(cs) |-> sorted[k].from]]

\* An update that exchanges the updated case with the case at the place d
\* the sort would take it to, instead of shifting the cases in between.
UpdateSwap(cs, i, newP, d) ==
    [cases |-> [k \in 1..Len(cs) |->
                   IF k = d THEN [cs[i] EXCEPT !.priority = newP]
                   ELSE IF k = i THEN cs[d] ELSE cs[k]],
     from |-> [k \in 1..Len(cs) |-> IF k = d THEN i ELSE IF k = i THEN d ELSE k]]

UpdateAtSwapping(cs, i, newP) ==
    UpdateSwap(cs, i, newP,
               CHOOSE d \in 1..Len(cs) :
                   sortCases([k \in 1..Len(cs) |->
                       [priority |-> IF k = i THEN newP ELSE cs[k].priority,
                        from |-> k]])[d].from = i)

\* cases[i].priority = newP, then sortCases(). The cases are sorted together
\* with the index each had before, which tells where each one went:
\* [cases, from], from[k] being the old index of the case now at k.
UpdateAt(cs, i, newP) ==
    Reordered(cs, sortCases([k \in 1..Len(cs) |->
                  [priority |-> IF k = i THEN newP ELSE cs[k].priority, from |-> k]]))

\* The step of a successful update: u is what UpdateAt returned.
UpdateDone(i, newP, method, u) ==
    /\ cases' = u.cases
    /\ lastOp' = Op("update", "ok", i, CHOOSE k \in 1..size : u.from[k] = i, newP, method)
    /\ UNCHANGED <<logFile, feedFile, pc, writeFailures>>

\* The end of updatePriority once the case at index i is selected: the
\* prompt for the new priority, the assignment and the sort.
UpdateSelected(i, method) ==
    \E newP \in NewPriorities :
        IF newP = -1 THEN Aborted("update")
        ELSE UpdateDone(i, newP, method, UpdateAt(cases, i, newP))

\* The end of the search by name: i is the index found, 0 when no name matched.
UpdateNamed(i, method) == IF i = 0 THEN Aborted("update") ELSE UpdateSelected(i, method)

\* void EmergencyDepartment::updatePriority()
updatePriority ==
    /\ pc = "menu"
    /\ IF size = 0 THEN Aborted("update")
       ELSE \E method \in {-1, 1, 2} :
            CASE method = -1 -> Aborted("update")
              [] method = 1 ->
                    \E num \in {-1} \cup (1..size) :
                        IF num = -1 THEN Aborted("update") ELSE UpdateSelected(num, method)
              [] method = 2 ->
                    \E name \in UpdateNames :
                        UpdateNamed(FirstByName(cases, toLowerCase(name), 1), method)

\* void EmergencyDepartment::viewPendingCases(): prints the store, or that it is empty.
viewPendingCases ==
    /\ pc = "menu"
    /\ lastOp' = Op("view", IF size = 0 THEN "empty" ELSE "shown", 0, 0, 0, 0)
    /\ UNCHANGED <<cases, logFile, feedFile, pc, writeFailures>>

\* The indices the loop of searchByPatientName reports.
MatchingNames(cs, lowerName) ==
    {i \in 1..Len(cs) : toLowerCase(cs[i].patientName) = lowerName}

\* The indices the loop of searchByEmergencyType reports.
MatchingTypes(cs, lowerType) ==
    {i \in 1..Len(cs) : toLowerCase(cs[i].emergencyType) = lowerType}

\* What searchByEmergencyType prints of a matching case: "Patient: ... | Priority: ...".
MatchLine(c) == [patientName |-> c.patientName, priority |-> c.priority]

\* The loop of searchByPatientName from index i on: the cases it prints
\* (id, name, type and priority of each), in the order it prints them.
RECURSIVE SearchNameLoop(_, _, _)
SearchNameLoop(cs, lowerName, i) ==
    IF i > Len(cs) THEN <<>>
    ELSE (IF toLowerCase(cs[i].patientName) = lowerName THEN <<cs[i]>> ELSE <<>>)
             \o SearchNameLoop(cs, lowerName, i + 1)

\* The loop of searchByEmergencyType from index i on: the lines it prints.
RECURSIVE SearchTypeLoop(_, _, _)
SearchTypeLoop(cs, lowerType, i) ==
    IF i > Len(cs) THEN <<>>
    ELSE (IF toLowerCase(cs[i].emergencyType) = lowerType THEN <<MatchLine(cs[i])>> ELSE <<>>)
             \o SearchTypeLoop(cs, lowerType, i + 1)

\* A loop that ends at the first match.
FoundByNameFirstOnly(cs, name) ==
    IF SearchNameLoop(cs, toLowerCase(name), 1) = <<>> THEN <<>>
    ELSE <<SearchNameLoop(cs, toLowerCase(name), 1)[1]>>

\* What searchByPatientName prints for the name typed.
FoundByName(cs, name) == SearchNameLoop(cs, toLowerCase(name), 1)

\* What searchByEmergencyType prints for the type typed.
FoundByType(cs, type) == SearchTypeLoop(cs, toLowerCase(type), 1)

\* The end of a search: "empty" on an empty store, else whether a case was
\* found; query is what was typed and printed what the loop has printed.
Searched(outcome, method, query, printed) ==
    /\ lastOp' = [Op("search", outcome, 0, 0, 0, method) EXCEPT !.idx = printed, !.pos = query]
    /\ UNCHANGED <<cases, logFile, feedFile, pc, writeFailures>>

\* void EmergencyDepartment::searchByPatientName()
searchByPatientName ==
    /\ pc = "menu"
    /\ IF size = 0 THEN Searched("empty", 1, <<>>, <<>>)
       ELSE \E name \in SearchNames :
            Searched(IF MatchingNames(cases, toLowerCase(name)) # {} THEN "found" ELSE "none",
                     1, name, FoundByName(cases, name))

\* void EmergencyDepartment::searchByEmergencyType()
searchByEmergencyType ==
    /\ pc = "menu"
    /\ IF size = 0 THEN Searched("empty", 2, <<>>, <<>>)
       ELSE \E type \in SearchTypes :
            Searched(IF MatchingTypes(cases, toLowerCase(type)) # {} THEN "found" ELSE "none",
                     2, type, FoundByType(cases, type))

----------------------------------------------------------------------------
(* Observers: history kept beside the program, read by the properties.     *)

Unobserved == UNCHANGED <<issued, run>>

\* The ids logEmergencyCase assigns between two startups.
ObserveSession ==
    /\ issued' =
          CASE lastOp'.op = "startup" -> NewSession
            [] lastOp'.op = "log" /\ lastOp'.outcome = "ok" ->
                  IF logFile' # logFile
                  THEN [issued EXCEPT !.saved = @ \cup {cases'[lastOp'.pos].patientID}]
                  ELSE [issued EXCEPT !.unsaved = @ \cup {cases'[lastOp'.pos].patientID}]
            [] OTHER -> issued
    /\ UNCHANGED run

\* The processCriticalCase calls that follow one another: n0 cases were in
\* the store before the first, calls counts them up to n0 + 1.
ObserveRun ==
    /\ run' = IF lastOp'.op = "process"
              THEN [run EXCEPT !.calls = IF @ > run.n0 THEN @ ELSE @ + 1]
              ELSE NewRun(cases')
    /\ UNCHANGED issued

----------------------------------------------------------------------------
(* Specifications.                                                         *)

Next ==
    \/ Restart({TRUE}) /\ Unobserved /\ OthersIdle
    \/ logEmergencyCase({TRUE}) /\ Unobserved /\ OthersIdle
    \/ processCriticalCase /\ Unobserved /\ OthersIdle
    \/ updatePriority /\ Unobserved /\ OthersIdle
    \/ viewPendingCases /\ Unobserved /\ OthersIdle
    \/ searchByPatientName /\ Unobserved /\ OthersIdle
    \/ searchByEmergencyType /\ Unobserved /\ OthersIdle

\* Every append to the case log succeeds.
Spec == Init /\ [][Next]_vars

\* The same, with the over-long and the ill-formed files among those found at startup.
SpecStartup == InitFrom(StartupLogs, StartupFeeds, {TRUE}) /\ [][Next]_vars

\* The same, from before the first startup, so that the first run of the
\* constructor is a step.
SpecBoot == Off(StartupLogs, StartupFeeds) /\ [][Next]_vars

\* The same, from a first installation: no case log, or an empty one.
SpecFresh == InitFrom(FreshLogs, Feeds, {TRUE}) /\ [][Next]_vars

NextSession ==
    \/ Restart({TRUE}) /\ ObserveSession /\ OthersIdle
    \/ logEmergencyCase({TRUE}) /\ ObserveSession /\ OthersIdle
    \/ processCriticalCase /\ ObserveSession /\ OthersIdle
    \/ updatePriority /\ ObserveSession /\ OthersIdle

\* Spec with the ids of the session observed.
SpecSession == Init /\ [][NextSession]_vars

NextRun ==
    \/ Restart({TRUE}) /\ ObserveRun /\ OthersIdle
    \/ logEmergencyCase({TRUE}) /\ ObserveRun /\ OthersIdle
    \/ processCriticalCase /\ ObserveRun /\ OthersIdle
    \/ updatePriority /\ ObserveRun /\ OthersIdle

\* Spec with the runs of processCriticalCase observed.
SpecRun == Init /\ [][NextRun]_vars

NextWriteFail ==
    \/ Restart(WriteOutcomes) /\ ObserveSession /\ OthersIdle
    \/ logEmergencyCase(WriteOutcomes) /\ ObserveSession /\ OthersIdle
    \/ processCriticalCase /\ ObserveSession /\ OthersIdle
    \/ updatePriority /\ ObserveSession /\ OthersIdle

\* A first installation without an intake feed, where the case log may fail
\* to open for appending; the ids of the session observed.
SpecWriteFail == InitFrom(FreshLogs, {NoFile}, WriteOutcomes) /\ [][NextWriteFail]_vars

NextTable ==
    \/ logEmergencyCaseWith(TableNames, TableChoices, TableCustomTypes, TablePriorities, {TRUE})
          /\ Unobserved /\ OthersIdle
    \/ processCriticalCase /\ Unobserved /\ OthersIdle
    \/ viewPendingCases /\ Unobserved /\ OthersIdle

\* A first installation without an intake feed, the operator logging Jane
\* Doe and Sam Lee with any choice of the type menu.
SpecTable == InitFrom(FreshLogs, {NoFile}, {TRUE}) /\ [][NextTable]_vars

----------------------------------------------------------------------------
(* Writing a store to the case log and loading it again.                   *)

\* saveCaseToFile called for each case of cs from index i on.
RECURSIVE SaveEach(_, _, _)
SaveEach(file, cs, i) ==
    IF i > Len(cs) THEN file
    ELSE SaveEach(saveCaseToFile(file, cs[i], TRUE), cs, i + 1)

\* Some store is in memory and there is no case log.
StoreGiven ==
    \E cs \in StoreContents :
        /\ cases = cs
        /\ logFile = NoFile
        /\ feedFile = NoFile
        /\ pc = "menu"
        /\ lastOp = Op("store", "ok", 0, 0, 0, 0)
        /\ writeFailures = 0
        /\ issued = NewSession
        /\ run = NewRun(cs)
        /\ OthersNotStarted

\* Every case of the store is written to the case log.
WriteStore ==
    /\ lastOp.op = "store"
    /\ logFile' = SaveEach(logFile, cases, 1)
    /\ lastOp' = Op("write", "ok", 0, 0, 0, 0)
    /\ UNCHANGED <<cases, feedFile, pc, writeFailures>>

\* The step to what loadExistingEmergencies, having returned r, makes of the store.
LoadedAs(r) ==
    /\ cases' = r.cases
    /\ pc' = IF r.threw THEN "terminated" ELSE "menu"
    /\ lastOp' = Op("load", IF r.threw THEN "threw" ELSE "ok", 0, 0, 0, 0)
    /\ UNCHANGED <<logFile, feedFile, writeFailures>>

\* loadExistingEmergencies runs on the case log just written, size being 0.
LoadStore ==
    /\ lastOp.op = "write"
    /\ LoadedAs(loadExistingEmergencies(logFile))

NextRoundTrip ==
    \/ WriteStore /\ Unobserved /\ OthersIdle
    \/ LoadStore /\ Unobserved /\ OthersIdle

SpecRoundTrip == StoreGiven /\ [][NextRoundTrip]_vars

----------------------------------------------------------------------------
(* Patient admission (src/PatientAdmission.cpp): a circular queue of       *)
(* patients in an array, saved to data/patients.txt after every change.    *)

\* Patient files found on disk at startup: none, an empty one, one written
\* by an earlier session that had discharged patients 1 and 2, and one with
\* an empty line, a line without a number, a line without a condition and a
\* record with blanks around its fields.
AdmissionFiles ==
    { NoFile,
      File(<<>>),
      File(<< CsvLine(<<IntToText(3), Al, Fever>>),
              CsvLine(<<IntToText(4), Bo, Flu>>) >>),
      File(<< <<>>,
              CsvLine(<<NotANumber, Al, Fever>>),
              CsvLine(<<IntToText(7), Al>>),
              CsvLine(<<IntToText(2), <<32>> \o Bo \o <<32>>, <<9>> \o Fever>>) >>) }

\* What the operator types at "Enter Patient Name": nothing, blanks, a name with a blank before it, a name.
AdmitNames == {<<>>, <<32, 9>>, <<32>> \o Al, Bo}

\* What the operator types at "Enter Condition Type".
AdmitConditions == {<<>>, Fever}

\* What the operator types at "Enter ID to search".
SearchIDs == {0, 1, 2}

\* str.find_first_not_of(" \t") from index i on: the index found, Len(str) + 1 for npos.
RECURSIVE FirstNotBlank(_, _)
FirstNotBlank(str, i) ==
    IF i <= Len(str) /\ str[i] \in {32, 9} THEN FirstNotBlank(str, i + 1) ELSE i

\* str.find_last_not_of(" \t") from index i down: the index found, 0 for npos.
RECURSIVE LastNotBlank(_, _)
LastNotBlank(str, i) ==
    IF i >= 1 /\ str[i] \in {32, 9} THEN LastNotBlank(str, i - 1) ELSE i

\* string trim(const string& str)
trim(str) ==
    IF FirstNotBlank(str, 1) > Len(str) THEN <<>>
    ELSE SubSeq(str, FirstNotBlank(str, 1), LastNotBlank(str, Len(str)))

\* ss >> id: white space, an optional sign, digits; fails when no digit is
\* there. rest is what the stream has left. The digits d were read from index j on.
ExtractIntAt(ss, neg, j, d) ==
    IF d.next = j THEN [ok |-> FALSE, val |-> 0, rest |-> <<>>]
    ELSE [ok |-> TRUE, val |-> IF neg THEN 0 - d.val ELSE d.val,
          rest |-> SubSeq(ss, d.next, Len(ss))]

ExtractIntSigned(ss, i, signed) ==
    ExtractIntAt(ss, signed /\ ss[i] = 45, IF signed THEN i + 1 ELSE i,
                 ReadDigits(ss, IF signed THEN i + 1 ELSE i, 0))

ExtractIntFrom(ss, i) == ExtractIntSigned(ss, i, i <= Len(ss) /\ ss[i] \in {43, 45})

ExtractInt(ss) == ExtractIntFrom(ss, SkipSpace(ss, 1))

isEmpty(p) == p.currentSize = 0
isFull(p) == p.currentSize = MAX_PATIENTS

\* The patients of the queue from front to rear, as viewPatientQueue and
\* saveToFile walk it: index = (index + 1) % MAX_PATIENTS.
Waiting(p) == [i \in 1..p.currentSize |-> p.queue[(p.front + i - 1) % MAX_PATIENTS]]

\* The line saveToFile writes for a patient.
FormatPatient(x) == IntToText(x.id) \o <<44>> \o x.name \o <<44>> \o x.condition

\* void PatientAdmission::saveToFile() const: the file is written anew from the queue.
PatientAdmission_saveToFile(p) == File([i \in 1..p.currentSize |-> FormatPatient(Waiting(p)[i])])

\* int id = nextId++; queue[rear] = {id, name, condition}; rear = (rear + 1) % MAX_PATIENTS; currentSize++;
Enqueue(p, name, condition) ==
    [p EXCEPT !.queue[p.rear] = Patient(p.nextId, name, condition),
              !.rear = (p.rear + 1) % MAX_PATIENTS,
              !.currentSize = p.currentSize + 1,
              !.nextId = p.nextId + 1]

\* A dequeue that leaves front where it is and takes the rear patient.
DequeueAtRear(p) ==
    [p EXCEPT !.rear = (p.rear + MAX_PATIENTS - 1) % MAX_PATIENTS,
              !.currentSize = p.currentSize - 1]

\* front = (front + 1) % MAX_PATIENTS; currentSize--;
Dequeue(p) ==
    [p EXCEPT !.front = (p.front + 1) % MAX_PATIENTS,
              !.currentSize = p.currentSize - 1]

Max(a, b) == IF a >= b THEN a ELSE b

\* The loop of loadFromFile from line i on. The file is read as it was when
\* it was opened; file is what data/patients.txt holds by now, admitPatient
\* having written it anew for each patient loaded. Result: [pa, file].
RECURSIVE LoadPatients(_, _, _, _, _)
RECURSIVE LoadPatientLine(_, _, _, _, _)
RECURSIVE LoadPatientID(_, _, _, _, _, _)
RECURSIVE LoadPatientName(_, _, _, _, _, _, _)
RECURSIVE LoadPatientTrimmed(_, _, _, _, _, _, _, _)
RECURSIVE LoadPatientAdmitted(_, _, _, _)

\* if (!isFull() && admitPatient(name, condition)): q is the queue after the
\* admission, which has saved it; maxLoadedId = max(maxLoadedId, id).
LoadPatientAdmitted(lines, i, q, maxLoadedId) ==
    LoadPatients(lines, i + 1, q, PatientAdmission_saveToFile(q), maxLoadedId)

LoadPatientTrimmed(lines, i, p, file, maxLoadedId, id, name, condition) ==
    IF name = <<>> \/ condition = <<>> \/ isFull(p)
    THEN LoadPatients(lines, i + 1, p, file, maxLoadedId)
    ELSE LoadPatientAdmitted(lines, i, Enqueue(p, name, condition), Max(maxLoadedId, id))

\* g is what getline(ss, name, ',') returned; the condition is the rest of the line.
LoadPatientName(lines, i, p, file, maxLoadedId, id, g) ==
    IF ~g.ok THEN LoadPatients(lines, i + 1, p, file, maxLoadedId)
    ELSE LoadPatientTrimmed(lines, i, p, file, maxLoadedId, id, trim(g.str), trim(g.rest))

\* e is what ss >> id returned; the text up to the first comma after the number is skipped.
LoadPatientID(lines, i, p, file, maxLoadedId, e) ==
    IF ~e.ok THEN LoadPatients(lines, i + 1, p, file, maxLoadedId)
    ELSE LoadPatientName(lines, i, p, file, maxLoadedId, e.val,
                         getline(getline(e.rest, 44).rest, 44))

LoadPatientLine(lines, i, p, file, maxLoadedId) ==
    IF lines[i] = <<>> THEN LoadPatients(lines, i + 1, p, file, maxLoadedId)
    ELSE LoadPatientID(lines, i, p, file, maxLoadedId, ExtractInt(lines[i]))

\* After the loop: nextId = max(1, maxLoadedId + 1).
LoadPatients(lines, i, p, file, maxLoadedId) ==
    IF i > Len(lines)
    THEN [pa |-> [p EXCEPT !.nextId = Max(1, maxLoadedId + 1)], file |-> file]
    ELSE LoadPatientLine(lines, i, p, file, maxLoadedId)

\* void PatientAdmission::loadFromFile(), called on the object p with the
\* file on disk: [pa, file].
PatientAdmission_loadFromFile(p, file) ==
    IF ~file.exists THEN [pa |-> p, file |-> file]
    ELSE LoadPatients(file.lines, 1, p, file, 0)

\* PatientAdmission::PatientAdmission()
PatientAdmission(file) == PatientAdmission_loadFromFile(NewAdmission, file)

\* The emergency department and the supply manager are not running.
AdmissionAlone ==
    /\ cases = <<>>
    /\ logFile = NoFile
    /\ pc = "off"
    /\ writeFailures = 0
    /\ issued = NewSession
    /\ run = NewRun(<<>>)
    /\ ms = NewSupplyStack
    /\ supplyFiles = NoSupplyFiles
    /\ AmbulanceNotStarted

AdmissionOnly ==
    UNCHANGED <<cases, logFile, pc, writeFailures, ms, supplyFiles>> /\ AmbulanceIdle

\* The state in which the constructor, having returned r, leaves the program.
AdmissionStartedWith(r) ==
    /\ pa = r.pa
    /\ feedFile = r.file
    /\ lastOp = Op("startAdmission", "ok", 0, 0, 0, 0)
    /\ AdmissionAlone

AdmissionStarted(files) == \E file \in files : AdmissionStartedWith(PatientAdmission(file))

\* The step to the state in which the constructor, having returned r, leaves the program.
AdmissionRestartedWith(r) ==
    /\ pa' = r.pa
    /\ feedFile' = r.file
    /\ lastOp' = Op("restartAdmission", "ok", 0, 0, 0, 0)
    /\ AdmissionOnly

\* main returns (~PatientAdmission() saves the queue) and the program is started again.
RestartAdmission == AdmissionRestartedWith(PatientAdmission(PatientAdmission_saveToFile(pa)))

\* A rejection that empties the queue.
AdmissionRejectedClearing(op, outcome) ==
    /\ lastOp' = Op(op, outcome, 0, 0, 0, 0)
    /\ pa' = [pa EXCEPT !.currentSize = 0, !.rear = pa.front]
    /\ UNCHANGED feedFile
    /\ AdmissionOnly

\* return false: nothing was assigned and nothing was saved.
AdmissionRejected(op, outcome) ==
    /\ lastOp' = Op(op, outcome, 0, 0, 0, 0)
    /\ UNCHANGED <<pa, feedFile>>
    /\ AdmissionOnly

\* The end of a successful admitPatient: q is the queue after the enqueue; saveToFile().
Admitted(q) ==
    /\ pa' = q
    /\ feedFile' = PatientAdmission_saveToFile(q)
    /\ lastOp' = Op("admit", "ok", pa.nextId, q.currentSize, 0, 0)
    /\ AdmissionOnly

\* bool PatientAdmission::admitPatient(), called from the menu: name and
\* condition are prompted for and trimmed.
AdmitTyped(name, condition) ==
    IF name = <<>> \/ condition = <<>> THEN AdmissionRejected("admit", "invalid")
    ELSE Admitted(Enqueue(pa, name, condition))

admitPatient ==
    /\ pa.nextId <= MaxPatientID
    /\ IF isFull(pa) THEN AdmissionRejected("admit", "full")
       ELSE \E name \in AdmitNames, condition \in AdmitConditions :
                AdmitTyped(trim(name), trim(condition))

\* The end of a successful dischargePatient: q is the queue after the dequeue; saveToFile().
Discharged(q) ==
    /\ pa' = q
    /\ feedFile' = PatientAdmission_saveToFile(q)
    /\ lastOp' = Op("discharge", "ok", pa.queue[pa.front].id, 0, 0, 0)
    /\ AdmissionOnly

\* bool PatientAdmission::dischargePatient()
dischargePatient ==
    IF isEmpty(pa) THEN AdmissionRejected("discharge", "empty")
    ELSE Discharged(Dequeue(pa))

\* void PatientAdmission::viewPatientQueue() const
viewPatientQueue ==
    /\ lastOp' = [Op("viewQueue", IF isEmpty(pa) THEN "empty" ELSE "shown", 0, 0, 0, 0)
                     EXCEPT !.idx = Waiting(pa)]
    /\ UNCHANGED <<pa, feedFile>>
    /\ AdmissionOnly

\* The loop of searchPatientById: the position (one-based) of the first patient with the id, 0 if none.
RECURSIVE PositionOfID(_, _, _)
PositionOfID(p, searchId, i) ==
    IF i > p.currentSize THEN 0
    ELSE IF Waiting(p)[i].id = searchId THEN i
    ELSE PositionOfID(p, searchId, i + 1)

SearchedByID(searchId, position) ==
    /\ lastOp' = Op("searchId",
                    IF searchId <= 0 THEN "invalid" ELSE IF position = 0 THEN "none" ELSE "found",
                    searchId, position, 0, 0)
    /\ UNCHANGED <<pa, feedFile>>
    /\ AdmissionOnly

\* bool PatientAdmission::searchPatientById(int searchId) const
searchPatientById ==
    \E searchId \in SearchIDs :
        SearchedByID(searchId, IF searchId <= 0 THEN 0 ELSE PositionOfID(pa, searchId, 1))

NextAdmission ==
    \/ RestartAdmission /\ Unobserved
    \/ admitPatient /\ Unobserved
    \/ dischargePatient /\ Unobserved
    \/ viewPatientQueue /\ Unobserved
    \/ searchPatientById /\ Unobserved

\* The patient admission desk on its own.
SpecAdmission == AdmissionStarted(AdmissionFiles) /\ [][NextAdmission]_vars

----------------------------------------------------------------------------
(* Medical supplies (src/MedicalSupply.cpp): a stack of supplies in a      *)
(* linked list, saved to data/medical_supplies.txt (or to medicalSupply.txt *)
(* when that cannot be written) after every change.                        *)

Mask == <<77, 97, 115, 107>>                                        \* "Mask"
Gauze == <<71, 97, 117, 122, 101>>                                  \* "Gauze"
BatchB1 == <<66, 49>>                                               \* "B1"
ExpiryDate == <<50, 48, 50, 55, 45, 48, 49, 45, 51, 49>>            \* "2027-01-31"
KeepDryCool == <<107, 101, 101, 112, 32, 100, 114, 121, 44, 32, 99, 111, 111, 108>>  \* "keep dry, cool"

\* "ID,Name,Quantity,Batch,Expiry,Notes"
SupplyHeader ==
    <<73, 68, 44, 78, 97, 109, 101, 44, 81, 117, 97, 110, 116, 105, 116, 121, 44,
      66, 97, 116, 99, 104, 44, 69, 120, 112, 105, 114, 121, 44, 78, 111, 116, 101, 115>>

\* struct Supply
Supply(id, name, quantity, batch, expiry, notes) ==
    [id |-> id, name |-> name, quantity |-> quantity,
     batch |-> batch, expiry |-> expiry, notes |-> notes]

\* What the operator types in addSupply: the name (nothing, or a name with a
\* blank after it), the quantity (no number, 0, 5), batch, expiry and notes.
SupplyNames == {<<>>, Mask \o <<32>>, Gauze}
SupplyQuantities == {NotANumber, IntToText(0), IntToText(5)}
SupplyBatches == {BatchB1}
SupplyExpiries == {ExpiryDate}
SupplyNotes == {<<>>, KeepDryCool}

\* The index of the last character of s at or before j that is no white space, 0 if none.
RECURSIVE LastNotSpace(_, _)
LastNotSpace(s, j) ==
    IF j >= 1 /\ s[j] \in {32, 9, 10, 11, 12, 13} THEN LastNotSpace(s, j - 1) ELSE j

\* void MedicalSupply::trim(std::string& s)
MedicalSupply_trim(s) == SubSeq(s, SkipSpace(s, 1), LastNotSpace(s, Len(s)))

\* line.find(',', p + 1), 0 standing for npos (also when the comma before was not found).
CommaAfter(line, p) == IF p = 0 THEN 0 ELSE FindDelim(line, 44, p + 1)

\* The end of parseCsvLine: the commas are at p1 .. p5, id and quantity are
\* what stoi made of the first and the third field.
ParsedSupply(line, p1, p2, p3, p4, p5, id, quantity) ==
    IF ~id.ok \/ ~quantity.ok THEN [ok |-> FALSE, s |-> Supply(0, <<>>, 0, <<>>, <<>>, <<>>)]
    ELSE [ok |-> TRUE,
          s |-> Supply(id.val,
                       MedicalSupply_trim(SubSeq(line, p1 + 1, p2 - 1)),
                       quantity.val,
                       MedicalSupply_trim(SubSeq(line, p3 + 1, p4 - 1)),
                       MedicalSupply_trim(SubSeq(line, p4 + 1, p5 - 1)),
                       MedicalSupply_trim(SubSeq(line, p5 + 1, Len(line))))]

ParseCommas5(line, p1, p2, p3, p4, p5) ==
    IF p5 = 0 THEN [ok |-> FALSE, s |-> Supply(0, <<>>, 0, <<>>, <<>>, <<>>)]
    ELSE ParsedSupply(line, p1, p2, p3, p4, p5,
                      stoi(SubSeq(line, 1, p1 - 1)), stoi(SubSeq(line, p2 + 1, p3 - 1)))

ParseCommas4(line, p1, p2, p3, p4) == ParseCommas5(line, p1, p2, p3, p4, CommaAfter(line, p4))
ParseCommas3(line, p1, p2, p3) == ParseCommas4(line, p1, p2, p3, CommaAfter(line, p3))
ParseCommas2(line, p1, p2) == ParseCommas3(line, p1, p2, CommaAfter(line, p2))
ParseCommas1(line, p1) == ParseCommas2(line, p1, CommaAfter(line, p1))

\* bool MedicalSupply::parseCsvLine(const std::string& line, Supply& s): [ok, s]
parseCsvLine(line) == ParseCommas1(line, FindDelim(line, 44, 1))

\* The line saveToSpecificFile writes for a supply.
FormatSupply(s) ==
    CsvLine(<<IntToText(s.id), s.name, IntToText(s.quantity), s.batch, s.expiry, s.notes>>)

\* void MedicalSupply::clearAll()
clearAll(m) == [m EXCEPT !.top_ = <<>>]

\* A push that puts the node at the bottom of the list.
pushNodeAtBottom(m, s) ==
    [top_ |-> Append(m.top_, s),
     nextId_ |-> IF s.id >= m.nextId_ THEN s.id + 1 ELSE m.nextId_]

\* void MedicalSupply::pushNode(const Supply& s)
pushNode(m, s) ==
    [top_ |-> <<s>> \o m.top_,
     nextId_ |-> IF s.id >= m.nextId_ THEN s.id + 1 ELSE m.nextId_]

\* A pop that gives the id of the popped supply back to nextId_.
popNodeReusingID(m) == [top_ |-> Tail(m.top_), nextId_ |-> m.top_[1].id]

\* bool MedicalSupply::popNode(Supply& out), the stack not being empty
popNode(m) == [m EXCEPT !.top_ = Tail(m.top_)]

\* What saveToSpecificFile writes: the header and the supplies from the top down.
SupplyLines(m) == <<SupplyHeader>> \o [i \in 1..Len(m.top_) |-> FormatSupply(m.top_[i])]

\* bool MedicalSupply::saveToFile(): the primary path when data/ is there, else the fallback path.
MedicalSupply_saveToFile(m, files) ==
    IF files.dataDir THEN [files EXCEPT !.primary = File(SupplyLines(m))]
    ELSE [files EXCEPT !.fallback = File(SupplyLines(m))]

\* The loop of loadFromSpecificFile from line i on.
RECURSIVE LoadSupplies(_, _, _)
RECURSIVE LoadSupplyParsed(_, _, _, _)

LoadSupplyParsed(lines, i, m, r) ==
    LoadSupplies(lines, i + 1, IF r.ok THEN pushNode(m, r.s) ELSE m)

LoadSupplies(lines, i, m) ==
    IF i > Len(lines) THEN m
    ELSE IF lines[i] = <<>> THEN LoadSupplies(lines, i + 1, m)
    ELSE LoadSupplyParsed(lines, i, m, parseCsvLine(lines[i]))

\* bool MedicalSupply::loadFromSpecificFile(const std::string& filename): [ok, ms]
loadFromSpecificFile(m, file) ==
    IF ~file.exists THEN [ok |-> FALSE, ms |-> m]
    ELSE IF file.lines = <<>> THEN [ok |-> FALSE, ms |-> clearAll(m)]
    ELSE [ok |-> TRUE, ms |-> LoadSupplies(file.lines, 2, clearAll(m))]

\* The fallback path is tried when the primary path gave nothing: r is what it gave.
LoadFallback(r, files) == IF r.ok THEN r ELSE loadFromSpecificFile(r.ms, files.fallback)

\* bool MedicalSupply::loadFromFile(): [ok, ms]
MedicalSupply_loadFromFile(m, files) == LoadFallback(loadFromSpecificFile(m, files.primary), files)

\* MedicalSupply::MedicalSupply()
MedicalSupply(files) == MedicalSupply_loadFromFile(NewSupplyStack, files).ms

\* Supply files found on disk at startup. In the primary place: nothing, an
\* empty file, a file saved with two supplies, a file with an empty line, a
\* line with too few commas and a line whose quantity is no number.
PrimaryFiles ==
    { NoFile,
      File(<<>>),
      File(<< SupplyHeader,
              FormatSupply(Supply(2, Gauze, 5, BatchB1, ExpiryDate, KeepDryCool)),
              FormatSupply(Supply(1, Mask, 5, BatchB1, ExpiryDate, <<>>)) >>),
      File(<< SupplyHeader,
              <<>>,
              CsvLine(<<IntToText(1), Mask, IntToText(5)>>),
              CsvLine(<<IntToText(2), Mask, NotANumber, BatchB1, ExpiryDate, <<>>>>),
              FormatSupply(Supply(3, Mask, 5, BatchB1, ExpiryDate, <<>>)) >>) }

FallbackFiles ==
    { NoFile,
      File(<< SupplyHeader,
              FormatSupply(Supply(1, Gauze, 5, BatchB1, ExpiryDate, <<>>)) >>) }

\* With data/ missing there is no file in the primary place.
StartupSupplyFiles ==
    {[dataDir |-> TRUE, primary |-> p, fallback |-> f] : p \in PrimaryFiles, f \in FallbackFiles}
        \cup {[dataDir |-> FALSE, primary |-> NoFile, fallback |-> f] : f \in FallbackFiles}

\* The emergency department and the admission desk are not running.
SupplyAlone ==
    /\ cases = <<>>
    /\ logFile = NoFile
    /\ feedFile = NoFile
    /\ pc = "off"
    /\ writeFailures = 0
    /\ issued = NewSession
    /\ run = NewRun(<<>>)
    /\ pa = NewAdmission
    /\ AmbulanceNotStarted

SupplyOnly ==
    UNCHANGED <<cases, logFile, feedFile, pc, writeFailures, pa>> /\ AmbulanceIdle

SupplyStarted(startupFiles) ==
    \E files \in startupFiles :
        /\ ms = MedicalSupply(files)
        /\ supplyFiles = files
        /\ lastOp = Op("startSupply", "ok", 0, 0, 0, 0)
        /\ SupplyAlone

\* The object is destroyed (clearAll, nothing is saved) and constructed again.
RestartSupply ==
    /\ ms' = MedicalSupply(supplyFiles)
    /\ lastOp' = Op("restartSupply", "ok", 0, 0, 0, 0)
    /\ UNCHANGED supplyFiles
    /\ SupplyOnly

\* return false: the stack and the files stay as they are.
SupplyRejected(op, outcome) ==
    /\ lastOp' = Op(op, outcome, 0, 0, 0, 0)
    /\ UNCHANGED <<ms, supplyFiles>>
    /\ SupplyOnly

\* The end of a successful addSupply: m is the stack after pushNode; saveToFile().
SupplyAdded(m) ==
    /\ ms' = m
    /\ supplyFiles' = MedicalSupply_saveToFile(m, supplyFiles)
    /\ lastOp' = Op("addSupply", "ok", ms.nextId_, 0, 0, 0)
    /\ SupplyOnly

\* addSupply once everything is typed and trimmed: quantity is what cin >> s.quantity read.
AddTyped(name, quantity, batch, expiry, notes) ==
    IF ~quantity.ok THEN SupplyRejected("addSupply", "noNumber")
    ELSE IF name = <<>> \/ quantity.val <= 0 THEN SupplyRejected("addSupply", "invalid")
    ELSE SupplyAdded(pushNode(ms, Supply(ms.nextId_, name, quantity.val, batch, expiry, notes)))

\* bool MedicalSupply::addSupply()
addSupply ==
    /\ ms.nextId_ <= MaxSupplyID
    /\ \E name \in SupplyNames, quantity \in SupplyQuantities, batch \in SupplyBatches,
          expiry \in SupplyExpiries, notes \in SupplyNotes :
            AddTyped(MedicalSupply_trim(name), ExtractInt(quantity), MedicalSupply_trim(batch),
                     MedicalSupply_trim(expiry), MedicalSupply_trim(notes))

\* The end of a successful useLastAddedSupply: m is the stack after popNode; saveToFile().
SupplyUsed(m) ==
    /\ ms' = m
    /\ supplyFiles' = MedicalSupply_saveToFile(m, supplyFiles)
    /\ lastOp' = Op("useSupply", "ok", ms.top_[1].id, 0, 0, 0)
    /\ SupplyOnly

\* bool MedicalSupply::useLastAddedSupply()
useLastAddedSupply ==
    IF ms.top_ = <<>> THEN SupplyRejected("useSupply", "empty")
    ELSE SupplyUsed(popNode(ms))

\* void MedicalSupply::viewCurrentSupplies() const: prints the stack from the top down.
viewCurrentSupplies ==
    /\ lastOp' = [Op("viewSupplies", IF ms.top_ = <<>> THEN "empty" ELSE "shown", 0, 0, 0, 0)
                     EXCEPT !.idx = ms.top_]
    /\ UNCHANGED <<ms, supplyFiles>>
    /\ SupplyOnly

NextSupply ==
    \/ RestartSupply /\ Unobserved
    \/ addSupply /\ Unobserved
    \/ useLastAddedSupply /\ Unobserved
    \/ viewCurrentSupplies /\ Unobserved

\* The supply manager on its own.
SpecSupply == SupplyStarted(StartupSupplyFiles) /\ [][NextSupply]_vars

----------------------------------------------------------------------------
(* Ambulance dispatcher (src/Ambulance.cpp): a circular singly-linked list  *)
(* of ambulances, tail->next being the head of the rotation, and the roster *)
(* file data/ambulances.txt. The list is modelled as the sequence of its    *)
(* records from the head to the tail. The directory data/ exists, so the    *)
(* roster file can be opened for writing.                                   *)

A1 == <<65, 49>>                                                     \* "A1"
B2 == <<66, 50>>                                                     \* "B2"
C3 == <<67, 51>>                                                     \* "C3"
NoteAB == <<97, 44, 98>>                                             \* "a,b"
HalfPastEight == <<48, 56, 58, 51, 48>>                               \* "08:30"
HalfPastFour == <<49, 54, 58, 51, 48>>                                \* "16:30"

\* "ID,Vehicle,Driver,Notes,ShiftStart,ShiftEnd,IsOnDuty"
AmbulanceHeader ==
    <<73, 68, 44, 86, 101, 104, 105, 99, 108, 101, 44, 68, 114, 105, 118, 101, 114, 44, 78, 111, 116, 101, 115, 44, 83, 104, 105, 102, 116, 83, 116, 97, 114, 116, 44, 83, 104, 105, 102, 116, 69, 110, 100, 44, 73, 115, 79, 110, 68, 117, 116, 121>>

\* struct Ambulance::Record
Record(id, vehicleReg, driverName, notes, shiftStart, shiftEnd, isOnDuty) ==
    [id |-> id, vehicleReg |-> vehicleReg, driverName |-> driverName, notes |-> notes,
     shiftStart |-> shiftStart, shiftEnd |-> shiftEnd, isOnDuty |-> isOnDuty]

\* The line saveToFile writes for a record.
FormatRecord(r) ==
    CsvLine(<<IntToText(r.id), r.vehicleReg, r.driverName, r.notes,
              IntToText(r.shiftStart), IntToText(r.shiftEnd),
              IF r.isOnDuty THEN <<49>> ELSE <<48>>>>)

\* The ids of a roster, from the head to the tail.
RosterIDs(roster) == [i \in 1..Len(roster) |-> roster[i].id]

Range(s) == {s[i] : i \in 1..Len(s)}

\* bool Ambulance::saveToFile(): the file is opened and truncated; for an
\* empty roster nothing is written, otherwise the header and the records
\* from the head (tail->next) round to the tail.
Ambulance_saveToFile(a) ==
    IF a.roster = <<>> THEN File(<<>>)
    ELSE File(<<AmbulanceHeader>> \o [i \in 1..Len(a.roster) |-> FormatRecord(a.roster[i])])

\* line.find(',', p + 1): positions count from 1 and 0 stands for npos, so
\* that after a comma that was not found the search starts again at the
\* beginning of the line, as npos + 1 does.
NextComma(line, p) == FindDelim(line, 44, p + 1)

\* line.substr(p + 1, q - p - 1), p and q being positions of commas or npos:
\* a length that is not positive as a signed number is a huge unsigned one
\* and takes the rest of the line.
Between(line, p, q) ==
    SubSeq(line, p + 1, IF q <= p \/ q - 1 > Len(line) THEN Len(line) ELSE q - 1)

\* try { stoi, stoi, stoi } catch (...) { 0, 0, false }
ShiftFields(shiftStart, shiftEnd, isOnDuty) ==
    IF shiftStart.ok /\ shiftEnd.ok /\ isOnDuty.ok
    THEN [shiftStart |-> shiftStart.val, shiftEnd |-> shiftEnd.val, isOnDuty |-> isOnDuty.val # 0]
    ELSE [shiftStart |-> 0, shiftEnd |-> 0, isOnDuty |-> FALSE]

\* Record r{ id, vehicle, driver, notes, shiftStart, shiftEnd, isOnDuty }; an
\* id that stoi cannot read throws out of loadFromFile.
LoadedRecord(id, vehicle, driver, notes, shift) ==
    [skip |-> FALSE, threw |-> ~id.ok,
     r |-> Record(id.val, vehicle, driver, notes, shift.shiftStart, shift.shiftEnd, shift.isOnDuty)]

\* The body of the loop of loadFromFile for a line with commas at p1 .. p6.
ParsedRecord(line, p1, p2, p3, p4, p5, p6) ==
    IF p1 = 0 \/ p2 = 0 \/ p3 = 0
    THEN [skip |-> TRUE, threw |-> FALSE, r |-> Record(0, <<>>, <<>>, <<>>, 0, 0, FALSE)]
    ELSE IF p4 # 0
    THEN LoadedRecord(stoi(SubSeq(line, 1, p1 - 1)), Between(line, p1, p2), Between(line, p2, p3),
                      Between(line, p3, p4),
                      ShiftFields(stoi(Between(line, p4, p5)), stoi(Between(line, p5, p6)),
                                  stoi(Between(line, p6, 0))))
    ELSE LoadedRecord(stoi(SubSeq(line, 1, p1 - 1)), Between(line, p1, p2), Between(line, p2, p3),
                      Between(line, p3, 0), ShiftFields(stoi(<<>>), stoi(<<>>), stoi(<<>>)))

RosterCommas6(line, p1, p2, p3, p4, p5) ==
    ParsedRecord(line, p1, p2, p3, p4, p5, NextComma(line, p5))
RosterCommas5(line, p1, p2, p3, p4) == RosterCommas6(line, p1, p2, p3, p4, NextComma(line, p4))
RosterCommas4(line, p1, p2, p3) == RosterCommas5(line, p1, p2, p3, NextComma(line, p3))
RosterCommas3(line, p1, p2) == RosterCommas4(line, p1, p2, NextComma(line, p2))
RosterCommas2(line, p1) == RosterCommas3(line, p1, NextComma(line, p1))

\* pos1 .. pos6 of a line of the roster file, and the record made of it.
ParseRosterLine(line) == RosterCommas2(line, FindDelim(line, 44, 1))

\* The loop of loadFromFile from line i on: [threw, ad]. A record is linked
\* in behind the tail and becomes the tail.
RECURSIVE LoadRoster(_, _, _)
LoadRosterParsed(lines, i, a, f) ==
    IF f.skip THEN LoadRoster(lines, i + 1, a)
    ELSE IF f.threw THEN [threw |-> TRUE, ad |-> a]
    ELSE LoadRoster(lines, i + 1,
                    [roster |-> Append(a.roster, f.r), nextId |-> Max(a.nextId, f.r.id + 1)])

LoadRoster(lines, i, a) ==
    IF i > Len(lines) THEN [threw |-> FALSE, ad |-> a]
    ELSE IF lines[i] = <<>> THEN LoadRoster(lines, i + 1, a)
    ELSE LoadRosterParsed(lines, i, a, ParseRosterLine(lines[i]))

\* bool Ambulance::loadFromFile(): [threw, ad]. Without the file the roster
\* stays as it is; otherwise clearAll(), the first line is skipped and every
\* other line is read. nextId is not reset.
Ambulance_loadFromFile(a, file) ==
    IF ~file.exists THEN [threw |-> FALSE, ad |-> a]
    ELSE LoadRoster(file.lines, 2, [roster |-> <<>>, nextId |-> a.nextId])

\* Ambulance::Ambulance(): tail(nullptr), nextId(1) { loadFromFile(); }
Ambulance(file) == Ambulance_loadFromFile(NewRoster, file)

\* int Ambulance::timeToMinutes(const string& time), given the colon at
\* position colon (0: none) and what stoi made of the two parts.
MinutesOf(hours, minutes) ==
    IF ~hours.ok \/ ~minutes.ok THEN -1
    ELSE IF hours.val < 0 \/ hours.val > 23 \/ minutes.val < 0 \/ minutes.val > 59 THEN -1
    ELSE hours.val * 60 + minutes.val

TimeAround(time, colon) ==
    IF colon = 0 THEN -1
    ELSE MinutesOf(stoi(SubSeq(time, 1, colon - 1)), stoi(SubSeq(time, colon + 1, Len(time))))

timeToMinutes(time) == TimeAround(time, FindDelim(time, 58, 1))

\* The isOnDuty that updateDutyStatus gives a record at currentMinutes.
OnDutyAt(r, currentMinutes) ==
    IF r.shiftStart = 0 /\ r.shiftEnd = 0 THEN FALSE
    ELSE IF r.shiftStart < r.shiftEnd
    THEN currentMinutes >= r.shiftStart /\ currentMinutes < r.shiftEnd
    ELSE currentMinutes >= r.shiftStart \/ currentMinutes < r.shiftEnd

\* void Ambulance::updateDutyStatus(), the clock showing currentMinutes.
updateDutyStatus(a, currentMinutes) ==
    [a EXCEPT !.roster = [i \in 1..Len(a.roster) |->
                             [a.roster[i] EXCEPT !.isOnDuty = OnDutyAt(a.roster[i], currentMinutes)]]]

\* The first place in the roster, from the head on, of the record with this id; 0 if none.
RECURSIVE FirstWithID(_, _, _)
FirstWithID(roster, id, i) ==
    IF i > Len(roster) THEN 0
    ELSE IF roster[i].id = id THEN i
    ELSE FirstWithID(roster, id, i + 1)

----------------------------------------------------------------------------
(* Inputs of the ambulance dispatcher.                                     *)

\* The highest id registerAmbulance gives in the model.
MaxAmbulanceID == 3

\* data/ambulances.txt before the first start: missing, written by
\* saveToFile, or in the old format without the scheduling fields.
RosterFiles ==
    { NoFile,
      File(<< AmbulanceHeader,
              FormatRecord(Record(1, A1, Al, <<>>, 510, 990, TRUE)),
              FormatRecord(Record(3, B2, Al, <<>>, 0, 0, FALSE)) >>),
      File(<< AmbulanceHeader,
              CsvLine(<<IntToText(2), C3, Al, NoteAB>>) >>) }

\* What the operator types at the prompts of registerAmbulance (<<>>: end of input).
AmbulanceRegs == {<<>>, A1, B2, C3}
DriverNames == {<<>>, Al}
AmbulanceNotes == {<<>>}

\* What the operator types at the prompts of "Assign Shift Time".
AssignIDs == {1, 2}
TimeTexts == {HalfPastEight, HalfPastFour, NotANumber}

\* What the operator types at "Enter ambulance ID to remove".
RemoveIDs == {1, 2, 3}

\* The minutes since midnight the clock shows when updateDutyStatus runs.
ClockMinutes == {0, 600}

----------------------------------------------------------------------------
(* The operations of the ambulance dispatcher.                             *)

\* The emergency department, the admission desk and the supply manager are not running.
AmbulanceAlone ==
    /\ cases = <<>>
    /\ logFile = NoFile
    /\ feedFile = NoFile
    /\ pc = "off"
    /\ writeFailures = 0
    /\ issued = NewSession
    /\ run = NewRun(<<>>)
    /\ pa = NewAdmission
    /\ ms = NewSupplyStack
    /\ supplyFiles = NoSupplyFiles

AmbulanceOnly ==
    UNCHANGED <<cases, logFile, feedFile, pc, writeFailures, issued, run, pa, ms, supplyFiles>>

\* The state in which the constructor, having returned r, leaves the program.
AmbulanceStarted(files) ==
    \E file \in files :
        /\ ad = Ambulance(file).ad
        /\ rosterFile = file
        /\ rota = [NoRota EXCEPT !.given = Range(RosterIDs(Ambulance(file).ad.roster))]
        /\ lastOp = Op("startAmbulance", IF Ambulance(file).threw THEN "threw" ELSE "ok", 0, 0, 0, 0)
        /\ AmbulanceAlone

\* The object is destroyed (clearAll, nothing is saved) and constructed again.
RestartAmbulance ==
    /\ ad' = Ambulance(rosterFile).ad
    /\ lastOp' = Op("restartAmbulance", IF Ambulance(rosterFile).threw THEN "threw" ELSE "ok",
                    0, 0, 0, 0)
    /\ UNCHANGED rosterFile
    /\ AmbulanceOnly

\* return false: the roster stays unchanged, and so does the file.
AmbulanceRejected(op, outcome) ==
    /\ lastOp' = Op(op, outcome, 0, 0, 0, 0)
    /\ UNCHANGED <<ad, rosterFile>>
    /\ AmbulanceOnly

\* A rejected registration that takes an id all the same.
RegisterRejectedTakingID(outcome, reg, driver) ==
    /\ lastOp' = Op("register", outcome, 0, reg, driver, 0)
    /\ ad' = [ad EXCEPT !.nextId = ad.nextId + 1]
    /\ UNCHANGED rosterFile
    /\ AmbulanceOnly

\* registerAmbulance returns false: reg and driver are what was typed.
RegisterRejected(outcome, reg, driver) ==
    /\ lastOp' = Op("register", outcome, 0, reg, driver, 0)
    /\ UNCHANGED <<ad, rosterFile>>
    /\ AmbulanceOnly

\* The end of an operation that changed the roster to a and calls saveToFile().
RosterSaved(op, a, id) ==
    /\ ad' = a
    /\ rosterFile' = Ambulance_saveToFile(a)
    /\ lastOp' = Op(op, "ok", id, 0, 0, 0)
    /\ AmbulanceOnly

\* registerAmbulance once the three lines are read.
RegisterTyped(reg, driver, notes) ==
    IF reg = <<>> \/ driver = <<>> THEN RegisterRejected("invalid", reg, driver)
    ELSE IF \E i \in 1..Len(ad.roster) : ad.roster[i].vehicleReg = reg
    THEN RegisterRejected("duplicate", reg, driver)
    ELSE RosterSaved("register",
                     [roster |-> Append(ad.roster, Record(ad.nextId, reg, driver, notes, 0, 0, FALSE)),
                      nextId |-> ad.nextId + 1],
                     ad.nextId)

\* bool Ambulance::registerAmbulance(): cin >> ws takes the white space in
\* front of the registration away.
registerAmbulance ==
    /\ ad.nextId <= MaxAmbulanceID
    /\ \E reg \in AmbulanceRegs, driver \in DriverNames, notes \in AmbulanceNotes :
          RegisterTyped(SubSeq(reg, SkipSpace(reg, 1), Len(reg)), driver, notes)

\* A rotation that steps backward: the tail becomes the head.
RotatedBackward(roster) == <<roster[Len(roster)]>> \o SubSeq(roster, 1, Len(roster) - 1)

\* tail = tail->next: the head becomes the tail and the one behind it the head.
Rotated(roster) == Tail(roster) \o <<Head(roster)>>

\* bool Ambulance::rotateShift(): nothing is saved.
rotateShift ==
    IF ad.roster = <<>> THEN AmbulanceRejected("rotate", "empty")
    ELSE IF Len(ad.roster) = 1 THEN AmbulanceRejected("rotate", "single")
    ELSE /\ ad' = [ad EXCEPT !.roster = Rotated(ad.roster)]
         /\ lastOp' = Op("rotate", "ok", ad.roster[2].id, 0, 0, 0)
         /\ UNCHANGED rosterFile
         /\ AmbulanceOnly

\* Menu choice 3: updateDutyStatus(), then displaySchedule() prints the
\* roster from the head to the tail, or that there is none.
displaySchedule ==
    \E currentMinutes \in ClockMinutes :
        /\ ad' = updateDutyStatus(ad, currentMinutes)
        /\ lastOp' = [Op("display", IF ad.roster = <<>> THEN "empty" ELSE "shown", 0, 0, 0, 0)
                         EXCEPT !.idx = updateDutyStatus(ad, currentMinutes).roster]
        /\ UNCHANGED rosterFile
        /\ AmbulanceOnly

\* Menu choice 5: updateDutyStatus().
updateDuty ==
    \E currentMinutes \in ClockMinutes :
        /\ ad' = updateDutyStatus(ad, currentMinutes)
        /\ lastOp' = Op("updateDuty", "ok", 0, 0, 0, 0)
        /\ UNCHANGED rosterFile
        /\ AmbulanceOnly

\* The end of assignShift: i is the place of the ambulance found, 0 if there is none.
ShiftAssigned(ambulanceId, shiftStart, shiftEnd, i) ==
    IF i = 0 THEN AmbulanceRejected("assign", "notFound")
    ELSE RosterSaved("assign",
                     [ad EXCEPT !.roster[i].shiftStart = shiftStart, !.roster[i].shiftEnd = shiftEnd],
                     ambulanceId)

\* bool Ambulance::assignShift(int ambulanceId, int shiftStart, int shiftEnd)
assignShift(ambulanceId, shiftStart, shiftEnd) ==
    IF shiftStart < 0 \/ shiftEnd <= shiftStart \/ shiftEnd > 1440
    THEN AmbulanceRejected("assign", "times")
    ELSE IF ad.roster = <<>> THEN AmbulanceRejected("assign", "empty")
    ELSE ShiftAssigned(ambulanceId, shiftStart, shiftEnd, FirstWithID(ad.roster, ambulanceId, 1))

\* Menu choice 4, the two times being read as startMin and endMin.
AssignTimed(id, startMin, endMin) ==
    IF startMin = -1 \/ endMin = -1 THEN AmbulanceRejected("assign", "format")
    ELSE assignShift(id, startMin, endMin)

assignShiftChoice ==
    \E id \in AssignIDs, startStr \in TimeTexts, endStr \in TimeTexts :
        AssignTimed(id, timeToMinutes(startStr), timeToMinutes(endStr))

\* The roster without the record at place i.
Unlinked(roster, i) == SubSeq(roster, 1, i - 1) \o SubSeq(roster, i + 1, Len(roster))

\* The end of removeAmbulance: i is the place of the ambulance found, 0 if there is none.
RemoveFound(id, i) ==
    IF i = 0 THEN AmbulanceRejected("remove", "notFound")
    ELSE RosterSaved("remove", [ad EXCEPT !.roster = Unlinked(ad.roster, i)], id)

\* bool Ambulance::removeAmbulance(int id)
removeAmbulance ==
    \E id \in RemoveIDs :
        IF ad.roster = <<>> THEN AmbulanceRejected("remove", "empty")
        ELSE RemoveFound(id, FirstWithID(ad.roster, id, 1))

\* The run of consecutive rotations and the ids the roster has held in the
\* session, loaded or given by registerAmbulance. A run starts at the first
\* successful rotation after any other operation, and anew once it has gone
\* round; start is the roster at the start of the run, heads the heads the
\* rotations of the run took off duty.
ObserveRota ==
    rota' =
       CASE lastOp'.op = "restartAmbulance" ->
               [NoRota EXCEPT !.given = Range(RosterIDs(ad'.roster))]
         [] lastOp'.op = "rotate" /\ lastOp'.outcome = "ok" ->
               IF rota.heads # <<>> /\ Len(rota.heads) < Len(ad.roster)
               THEN [rota EXCEPT !.heads = Append(rota.heads, ad.roster[1].id)]
               ELSE [rota EXCEPT !.start = RosterIDs(ad.roster), !.heads = <<ad.roster[1].id>>]
         [] lastOp'.op = "register" /\ lastOp'.outcome = "ok" ->
               [start |-> <<>>, heads |-> <<>>, given |-> rota.given \cup {lastOp'.idx}]
         [] OTHER -> [rota EXCEPT !.start = <<>>, !.heads = <<>>]

NextAmbulance ==
    \/ RestartAmbulance /\ ObserveRota
    \/ registerAmbulance /\ ObserveRota
    \/ rotateShift /\ ObserveRota
    \/ displaySchedule /\ ObserveRota
    \/ assignShiftChoice /\ ObserveRota
    \/ updateDuty /\ ObserveRota
    \/ removeAmbulance /\ ObserveRota

\* The ambulance dispatcher on its own.
SpecAmbulance == AmbulanceStarted(RosterFiles) /\ [][NextAmbulance]_vars


----------------------------------------------------------------------------
(* The admission desk and the emergency department side by side: the       *)
(* admission desk writes data/patients.txt, the emergency department       *)
(* imports it at startup.                                                  *)

NextIntake ==
    \/ Restart({TRUE}) /\ Unobserved /\ OthersIdle
    \/ logEmergencyCase({TRUE}) /\ Unobserved /\ OthersIdle
    \/ admitPatient /\ Unobserved
    \/ dischargePatient /\ Unobserved

\* The admission desk is running on its file; the emergency department has
\* not been started and has no case log yet.
SpecIntake == AdmissionStarted(AdmissionFiles) /\ [][NextIntake]_vars

----------------------------------------------------------------------------
(* Properties.                                                             *)

IsSortedByPriority(cs) == \A k \in 1..(Len(cs) - 1) : cs[k].priority <= cs[k + 1].priority

NoDuplicateIDs(cs) == \A i, j \in 1..Len(cs) : i # j => cs[i].patientID # cs[j].patientID

\* The sequence s without its element at index k.
Without(s, k) == SubSeq(s, 1, k - 1) \o SubSeq(s, k + 1, Len(s))

LoggedOk(op) == op.op = "log" /\ op.outcome = "ok"
Removed(op) == op.op = "process" /\ op.outcome = "removed"
Updated(op) == op.op = "update" /\ op.outcome = "ok"

\* C1 (Invariant I1): after the startup load and import and after every
\* logEmergencyCase, processCriticalCase and updatePriority, the store is in
\* non-decreasing priority order.
C1_StoreSorted == IsSortedByPriority(cases)

\* C1 witness: an update has moved a case within a full store that holds different priorities.
C1_Witness ==
    /\ Updated(lastOp) /\ lastOp.pos # lastOp.idx
    /\ size = MAX_CASES /\ cases[1].priority < cases[size].priority

\* C2 (Invariant I2): from a first installation, with every log write
\* succeeding, the ids in the store are pairwise distinct after startup and
\* after any logEmergencyCase, processCriticalCase, updatePriority and restart.
C2_DistinctIDs == NoDuplicateIDs(cases)

\* C2 witness: a restart has loaded a log that holds logged and imported
\* cases, with a feed present whose ids the store already has.
C2_Witness ==
    /\ lastOp.op = "startup" /\ pc = "menu"
    /\ size = MAX_CASES /\ feedFile.exists /\ Len(feedFile.lines) > 1

\* C3: the ids that the logEmergencyCase calls of one session assign (and
\* append to the log) are pairwise distinct, also with processCriticalCase
\* calls in between: no call assigns an id the session has assigned before.
C3_SessionIDsDistinct ==
    [][LoggedOk(lastOp') => cases'[lastOp'.pos].patientID \notin issued.saved]_vars

\* C3 witness: the session has assigned two ids, and the store was empty
\* when the last one was assigned: the cases logged before had been processed.
C3_Witness ==
    /\ LoggedOk(lastOp) /\ size = 1
    /\ Cardinality(issued.saved) >= 2

\* C4: once an append of a logged case has failed, the store still holds
\* pairwise distinct ids, is sorted and within capacity, whatever is logged later.
C4_StoreCorrectAfterFailedAppend ==
    issued.unsaved # {} =>
        /\ NoDuplicateIDs(cases)
        /\ IsSortedByPriority(cases)
        /\ size <= MAX_CASES

\* C5: after processCriticalCase has removed the front case, the case log no
\* longer holds a record of it, and loading the log does not bring it back.
C5_ProcessRewritesLog ==
    [][Removed(lastOp') =>
          LET id == cases[1].patientID IN
          id \notin StoreIDs(cases') =>
              /\ id \notin CollectIDs(logFile'.lines, 1)
              /\ id \notin StoreIDs(loadExistingEmergencies(logFile').cases)]_vars

\* C6: after a successful updatePriority the case log holds the record of the
\* updated case with its new priority, and loading the log yields the case
\* with that priority.
C6_UpdateRewritesLog ==
    [][Updated(lastOp') =>
          LET c == cases'[lastOp'.pos]
              loaded == loadExistingEmergencies(logFile').cases
          IN  /\ \E n \in 1..Len(logFile'.lines) : logFile'.lines[n] = FormatCase(c)
              /\ \E k \in 1..Len(loaded) : loaded[k] = c]_vars

\* C7: n consecutive processCriticalCase calls on a store of n cases empty it,
\* each call removing a case whose priority is the least in the store before
\* the call; the call after them reports that nothing is left and leaves the
\* store empty.
C7_ProcessDrainsStore ==
    /\ [](/\ run.calls <= run.n0 => size = run.n0 - run.calls
          /\ run.calls = run.n0 + 1 =>
                /\ size = 0
                /\ lastOp.op = "process" /\ lastOp.outcome = "empty")
    /\ [][lastOp'.op = "process" =>
             IF size = 0 THEN lastOp'.outcome = "empty" /\ cases' = cases
             ELSE /\ lastOp'.outcome = "removed"
                  /\ \E k \in 1..size :
                        /\ cases' = Without(cases, k)
                        /\ \A j \in 1..size : cases[k].priority <= cases[j].priority]_vars

\* C7 witness: a store of MAX_CASES cases has been emptied by as many calls, and
\* the call after them has found it empty.
C7_Witness ==
    /\ run.n0 = MAX_CASES /\ run.calls = run.n0 + 1
    /\ lastOp.op = "process" /\ lastOp.outcome = "empty" /\ size = 0

\* C8 (as claimed): an updatePriority that changes the priority leaves the
\* updated case behind every other case of its new priority, whether the
\* priority number was lowered or raised.
C8_UpdatedCaseEndsItsGroup ==
    [][(Updated(lastOp') /\ lastOp'.p # cases[lastOp'.idx].priority) =>
          \A k \in 1..Len(cases') :
              (k # lastOp'.pos /\ cases'[k].priority = lastOp'.p) => k < lastOp'.pos]_vars

\* C8 (amended): an updatePriority that lowers the priority number leaves the
\* updated case behind every other case of its new priority; one that raises
\* the number leaves it in front of every other case of its new priority.
C8_UpdatedCaseKeepsItsSide ==
    [][Updated(lastOp') =>
          LET old == cases[lastOp'.idx].priority
              p == lastOp'.p
          IN  \A k \in 1..Len(cases') :
                  (k # lastOp'.pos /\ cases'[k].priority = p) =>
                      /\ p < old => k < lastOp'.pos
                      /\ p > old => k > lastOp'.pos]_vars

\* C8 witness: an update has moved a case toward the end (its priority number
\* was raised) and a case of the same priority follows it.
C8_Witness ==
    /\ Updated(lastOp) /\ lastOp.pos > lastOp.idx
    /\ \E k \in (lastOp.pos + 1)..size : cases[k].priority = cases[lastOp.pos].priority

SameBag(s, t) ==
    /\ Len(s) = Len(t)
    /\ \A i \in 1..Len(s) :
          Cardinality({k \in 1..Len(s) : s[k] = s[i]})
              = Cardinality({k \in 1..Len(t) : t[k] = s[i]})

\* C9: after a successful updatePriority with new priority p in 1..10 the
\* selected case has priority p and is otherwise unchanged, the other cases
\* are the same as before, the size is the same and the store is sorted.
C9_UpdateChangesOnePriority ==
    [][Updated(lastOp') =>
          /\ lastOp'.p \in 1..10
          /\ cases'[lastOp'.pos] = [cases[lastOp'.idx] EXCEPT !.priority = lastOp'.p]
          /\ Len(cases') = Len(cases)
          /\ SameBag(Without(cases', lastOp'.pos), Without(cases, lastOp'.idx))
          /\ IsSortedByPriority(cases')]_vars

\* C9 witness: an update by name has moved a case within a full store.
C9_Witness ==
    /\ Updated(lastOp) /\ lastOp.method = 2
    /\ lastOp.pos # lastOp.idx /\ size = MAX_CASES

\* C10: logEmergencyCase puts the new case right behind the last case whose
\* priority is at most the new one (behind the whole run of equal priority)
\* and leaves the order of the cases already stored as it was.
C10_InsertAfterEqualRun ==
    [][LoggedOk(lastOp') =>
          /\ lastOp'.pos \in 1..Len(cases')
          /\ cases'[lastOp'.pos].priority = lastOp'.p
          /\ Without(cases', lastOp'.pos) = cases
          /\ \A k \in 1..Len(cases) : (cases[k].priority <= lastOp'.p) <=> (k < lastOp'.pos)]_vars

\* C10 witness: a case has been inserted behind a case of its own priority
\* and in front of a case of greater priority.
C10_Witness ==
    /\ LoggedOk(lastOp) /\ lastOp.pos > 1 /\ lastOp.pos < size
    /\ cases[lastOp.pos - 1].priority = lastOp.p
    /\ cases[lastOp.pos + 1].priority > lastOp.p

\* The lines of a file that a chain of n getline calls reads in full.
RecordLines(file, n) == {i \in 1..Len(file.lines) : Len(Fields(file.lines[i], n)) = n}

\* C11: size stays within 0 .. MAX_CASES in every reachable state, also when
\* the case log or the feed found at startup holds more records than that.
C11_SizeWithinCapacity == size >= 0 /\ size <= MAX_CASES

\* C11 witness: the program is running with a full store on a case log that
\* holds more records than the store can take.
C11_Witness ==
    /\ pc = "menu" /\ size = MAX_CASES
    /\ Cardinality(RecordLines(logFile, 4)) > MAX_CASES

\* The ids of the records that n getline calls read from the lines of a file.
RecordIDs(file, n) == {stoi(Fields(file.lines[i], n)[1]).val : i \in RecordLines(file, n)}

\* C12: an insertion attempted on a full store is reported: logEmergencyCase
\* ends with the capacity message, and a startup that leaves a record of the
\* case log or of the feed out of the store prints a capacity message.
C12_FullStoreIsReported ==
    [][/\ (lastOp'.op = "log" /\ StoreFull(cases)) => lastOp'.outcome = "full"
       /\ (/\ lastOp'.op = "startup" /\ lastOp'.outcome = "ok"
           /\ (RecordIDs(logFile, 4) \cup RecordIDs(feedFile, 3)) \ StoreIDs(cases') # {}) =>
                \E k \in DOMAIN StartupOutput(logFile, feedFile) :
                    StartupOutput(logFile, feedFile)[k].text \in CapacityMessages]_vars

\* C13: logEmergencyCase on a full store ends with the capacity message and
\* leaves the store and the case log as they were.
C13_LogOnFullStoreRejected ==
    [][(lastOp'.op = "log" /\ size >= MAX_CASES) =>
          /\ lastOp'.outcome = "full"
          /\ cases' = cases
          /\ logFile' = logFile]_vars

\* C13 witness: logEmergencyCase has just been turned away from a full store.
C13_Witness == lastOp.op = "log" /\ lastOp.outcome = "full" /\ size = MAX_CASES

\* The ids that stoi reads from the first field of the lines of a file.
FirstFieldIDs(file) ==
    {stoi(getline(file.lines[i], 44).str).val :
        i \in {j \in 1..Len(file.lines) :
                  getline(file.lines[j], 44).ok /\ stoi(getline(file.lines[j], 44).str).ok}}

\* C14: generateNextID returns the least positive integer that is not the id
\* in the first field of a line of the case log, and 1 when there is no case
\* log; logEmergencyCase gives that id to the new case and the allocation
\* itself changes neither the store nor the log (they change by the insertion
\* and the append of the new case only).
C14_AllocatorLeastFreeID ==
    /\ [](LET newID == generateNextID(logFile, cases) IN
          /\ newID >= 1
          /\ newID \notin FirstFieldIDs(logFile)
          /\ \A n \in 1..(newID - 1) : n \in FirstFieldIDs(logFile)
          /\ ~logFile.exists => newID = 1)
    /\ [][LoggedOk(lastOp') =>
             /\ cases'[lastOp'.pos].patientID = generateNextID(logFile, cases)
             /\ Without(cases', lastOp'.pos) = cases
             /\ logFile'.lines = Append(logFile.lines, FormatCase(cases'[lastOp'.pos]))]_vars

\* C14 witness: a case has been logged with id 1, the least id free in a case
\* log that held a greater id already.
C14_Witness ==
    /\ LoggedOk(lastOp) /\ cases[lastOp.pos].patientID = 1
    /\ \E n \in FirstFieldIDs(logFile) : n > 1

StartedUp(op) == op.op = "startup" /\ op.outcome = "ok"

\* The cases a feed offers that are new to a store with the ids in ids: for
\* each line with three fields and a numeric id not in ids and not on an
\* earlier line, in feed order, the case of that id, name and type with priority 6.
RECURSIVE NewFeedCases(_, _, _)
NewFeedCases(lines, i, ids) ==
    IF i > Len(lines) THEN <<>>
    ELSE LET f == Fields(lines[i], 3)
             id == stoi(f[1])
         IN  IF Len(f) = 3 /\ id.ok /\ id.val \notin ids
             THEN <<EmergencyCase(id.val, f[2], f[3], 6)>>
                     \o NewFeedCases(lines, i + 1, ids \cup {id.val})
             ELSE NewFeedCases(lines, i + 1, ids)

\* What a startup that completes has made of the store loaded from the case
\* log and of the log itself when it has imported the cases of added, in
\* that order.
Imported(loaded, added) ==
    /\ SameBag(cases', loaded \o added)
    /\ logFile'.lines =
          logFile.lines \o [k \in 1..Len(added) |-> FormatCase(added[k])]
    /\ added = <<>> => Len(cases') = Len(loaded) /\ logFile' = logFile

WellFormedLogLine(line) ==
    /\ Len(Fields(line, 4)) = 4
    /\ stoi(Fields(line, 4)[1]).ok
    /\ stoi(Fields(line, 4)[4]).ok

\* A line of the feed with three fields and a numeric id.
WellFormedFeedLine(line) ==
    /\ Len(Fields(line, 3)) = 3
    /\ stoi(Fields(line, 3)[1]).ok

ShortLine(line, n) == Len(Fields(line, n)) < n

\* C17: whatever the lines of the case log, startup completes (the feed
\* being well-formed), and every well-formed line of the log is loaded while
\* the store has room.
C17_LogLoadNeverFatal ==
    [][(/\ lastOp'.op = "startup"
        /\ \A i \in 1..Len(feedFile.lines) :
              WellFormedFeedLine(feedFile.lines[i]) \/ ShortLine(feedFile.lines[i], 3)) =>
          /\ lastOp'.outcome = "ok" /\ pc' = "menu"
          /\ \A i \in 1..Len(logFile.lines) :
                WellFormedLogLine(logFile.lines[i]) =>
                    \/ stoi(Fields(logFile.lines[i], 4)[1]).val \in StoreIDs(cases')
                    \/ Len(cases') = MAX_CASES]_vars

\* C18: whatever the id fields of the feed, startup completes (the case log
\* being well-formed), and every well-formed line of the feed has its id in
\* the store afterwards while the store has room.
C18_FeedImportNeverFatal ==
    [][(/\ lastOp'.op = "startup"
        /\ \A i \in 1..Len(logFile.lines) :
              WellFormedLogLine(logFile.lines[i]) \/ ShortLine(logFile.lines[i], 4)) =>
          /\ lastOp'.outcome = "ok" /\ pc' = "menu"
          /\ \A i \in 1..Len(feedFile.lines) :
                WellFormedFeedLine(feedFile.lines[i]) =>
                    \/ stoi(Fields(feedFile.lines[i], 3)[1]).val \in StoreIDs(cases')
                    \/ Len(cases') = MAX_CASES]_vars

\* C19: an operation that ends without doing its work (an empty name, a full
\* store, a prompt given up, a name that matches no case, an empty store)
\* leaves the store as it was: the same cases in the same order.
C19_AbortedLeavesStore ==
    [][(/\ lastOp'.op \in {"log", "update", "process", "search"}
        /\ lastOp'.outcome \in {"aborted", "full", "empty", "none"}) =>
          cases' = cases]_vars

\* C19 witness: updatePriority has returned without an update on a full store.
C19_Witness ==
    /\ lastOp.op = "update" /\ lastOp.outcome = "aborted"
    /\ size = MAX_CASES

\* C20: writing the cases of a store of at most MAX_CASES cases, whose names
\* and types hold no comma, to the case log and loading that log yields the
\* same cases, each as often as before, in non-decreasing order of priority.
C20_LogRoundTrip ==
    [][lastOp'.op = "load" =>
          /\ lastOp'.outcome = "ok"
          /\ SameBag(cases', cases)
          /\ IsSortedByPriority(cases')]_vars

\* C20 witness: a full store has been loaded from a case log written in another
\* order, a case without a name in it.
C20_Witness ==
    /\ lastOp.op = "load" /\ size = MAX_CASES
    /\ logFile.lines[1] = FormatCase(cases[size])
    /\ cases[1].priority < cases[size].priority
    /\ \E k \in 1..size : cases[k].patientName = <<>> /\ cases[k].patientID = 12

\* C21: as long as no append to the case log has failed, every patientID in
\* the store is the id of a record (a line of four fields) of the case log.
C21_LogHoldsStoreIDs ==
    writeFailures = 0 => StoreIDs(cases) \subseteq RecordIDs(logFile, 4)

\* C21 witness: a case has just been logged into a store that also holds a
\* case imported from the feed, the log holding more records than the store.
C21_Witness ==
    /\ LoggedOk(lastOp) /\ writeFailures = 0
    /\ \E k \in 1..size :
          /\ k # lastOp.pos /\ cases[k].emergencyType = Fever
          /\ cases[k].patientID \in RecordIDs(feedFile, 3)
    /\ Cardinality(RecordLines(logFile, 4)) > size

\* C22: processCriticalCase on a non-empty store removes the case at the
\* front and no other: size decreases by one and every remaining case moves
\* down by one position, unchanged and in the same order.
C22_ProcessRemovesFront ==
    [][(lastOp'.op = "process" /\ size > 0) =>
          /\ Removed(lastOp')
          /\ size' = size - 1
          /\ \A k \in 1..size' : cases'[k] = cases[k + 1]]_vars

\* C22 witness: the front case of a full store has been removed, and the two
\* cases left differ.
C22_Witness ==
    /\ Removed(lastOp) /\ size = MAX_CASES - 1
    /\ size >= 2 /\ cases[1] # cases[2]

\* C23: across one operation of the menu the cases of the store keep their
\* id, name and type; updatePriority changes the priority of the selected
\* case alone, processCriticalCase takes the front case alone out of the
\* store, a successful logEmergencyCase adds one case and takes none out, and
\* every other outcome leaves the store as it was.
C23_LifecycleFrame ==
    [][lastOp'.op \in {"log", "process", "update", "view", "search"} =>
          CASE LoggedOk(lastOp') ->
                  /\ size' = size + 1
                  /\ Without(cases', lastOp'.pos) = cases
            [] Removed(lastOp') ->
                  /\ size > 0
                  /\ cases' = Tail(cases)
            [] Updated(lastOp') ->
                  /\ lastOp'.idx \in 1..size
                  /\ SameBag(cases', [cases EXCEPT ![lastOp'.idx].priority = lastOp'.p])
            [] OTHER -> cases' = cases]_vars

\* C23 witness: an update has given the selected case of a full store another
\* priority and moved it, another case of the same name staying as it was.
C23_Witness ==
    /\ Updated(lastOp) /\ size = MAX_CASES /\ lastOp.pos # lastOp.idx
    /\ cases[lastOp.pos].priority = lastOp.p
    /\ \E k \in 1..size :
          /\ k # lastOp.pos
          /\ cases[k].patientName = cases[lastOp.pos].patientName
          /\ cases[k].priority # lastOp.p

\* C24: every case of the store has a priority in 1..10 in every reachable
\* state, whatever case log (its lines of four fields) and feed the startup
\* finds and whatever is logged, updated and processed afterwards.
C24_PriorityInRange == \A k \in 1..size : cases[k].priority \in 1..10

\* The types and priorities of the fixed table of logEmergencyCase.
CategoryTable ==
    {<<HeartAttack, 1>>, <<RoadAccident, 2>>, <<AsthmaAttack, 3>>, <<SevereBurn, 4>>}

\* The two cases of the scenario, as logged on a first installation.
JaneDoeCase == EmergencyCase(1, JaneDoe, HeartAttack, 1)
SamLeeCase == EmergencyCase(2, SamLee, Other, 8)

\* Jane Doe has been logged into the empty store, then Sam Lee.
ScenarioLogged ==
    /\ LoggedOk(lastOp)
    /\ logFile.lines = <<FormatCase(JaneDoeCase), FormatCase(SamLeeCase)>>
    /\ size = 2

\* C25: a case logged with one of the four fixed types has the priority the
\* table gives for the type, a case logged with the free-text type has the
\* priority entered for it; after Jane Doe (Heart Attack) and Sam Lee (Other,
\* priority 8) have been logged into an empty store, the store lists Jane Doe
\* with priority 1 before Sam Lee with priority 8, and processCriticalCase
\* then removes Jane Doe and leaves Sam Lee alone.
C25_CategoryTable ==
    /\ [][LoggedOk(lastOp') =>
             LET c == cases'[lastOp'.pos] IN
             IF c.emergencyType \in TableCustomTypes
             THEN c.priority \in TablePriorities \ {-1}
             ELSE <<c.emergencyType, c.priority>> \in CategoryTable]_vars
    /\ [](ScenarioLogged => cases = <<JaneDoeCase, SamLeeCase>>)
    /\ [][(ScenarioLogged /\ lastOp'.op = "process") =>
             Removed(lastOp') /\ cases' = <<SamLeeCase>>]_vars

\* C25 witness: Jane Doe and Sam Lee have been logged and Jane Doe has been
\* processed: Sam Lee is the only case left.
C25_Witness ==
    /\ Removed(lastOp)
    /\ logFile.lines = <<FormatCase(JaneDoeCase), FormatCase(SamLeeCase)>>
    /\ cases = <<SamLeeCase>>

\* The strings s and t are equal up to the case of the ASCII letters.
EqualIgnoringCase(s, t) ==
    /\ Len(s) = Len(t)
    /\ \A i \in 1..Len(s) :
          \/ s[i] = t[i]
          \/ s[i] \in 65..90 /\ t[i] = s[i] + 32
          \/ t[i] \in 65..90 /\ s[i] = t[i] + 32

\* The elements of s at the indices in keep, in the order of s.
RECURSIVE Selected(_, _, _)
Selected(s, keep, i) ==
    IF i > Len(s) THEN <<>>
    ELSE (IF i \in keep THEN <<s[i]>> ELSE <<>>) \o Selected(s, keep, i + 1)

\* C26: a search by name prints the cases of the store whose patientName
\* equals the name typed up to the case of ASCII letters, a search by type the
\* name and priority of those whose emergencyType does: every such case, in
\* store order, and no other; it tells that nothing was found when there is
\* none; and it leaves the store as it was.
C26_SearchReportsAllMatches ==
    [][lastOp'.op = "search" =>
          LET query == lastOp'.pos
              byName == {k \in 1..size : EqualIgnoringCase(cases[k].patientName, query)}
              byType == {k \in 1..size : EqualIgnoringCase(cases[k].emergencyType, query)}
              expected == IF lastOp'.method = 1
                          THEN Selected(cases, byName, 1)
                          ELSE Selected([k \in 1..size |->
                                            [patientName |-> cases[k].patientName,
                                             priority |-> cases[k].priority]], byType, 1)
          IN  /\ cases' = cases
              /\ size > 0 =>
                    /\ lastOp'.idx = expected
                    /\ lastOp'.outcome = IF expected = <<>> THEN "none" ELSE "found"
              /\ size = 0 => lastOp'.idx = <<>> /\ lastOp'.outcome = "empty"]_vars

\* C26 witness: a search by name has printed two cases whose names differ in
\* the case of a letter, and the store holds a case it has not printed.
C26_Witness ==
    /\ lastOp.op = "search" /\ lastOp.method = 1 /\ lastOp.outcome = "found"
    /\ Len(lastOp.idx) = 2 /\ lastOp.idx[1].patientName # lastOp.idx[2].patientName
    /\ size = 3

\* C27: after any admissions and discharges, a restart (the queue is saved
\* when the program ends and loaded when it starts) leaves the queue with the
\* same patients (id, name and condition) in the same order from front to
\* rear, and nextId above every id in the queue.
C27_RestartKeepsQueue ==
    [][lastOp'.op = "restartAdmission" =>
          /\ Waiting(pa') = Waiting(pa)
          /\ \A i \in 1..pa'.currentSize : Waiting(pa')[i].id < pa'.nextId]_vars

Admission(op, outcome) == op.op = "admit" /\ op.outcome = outcome
Discharge(op, outcome) == op.op = "discharge" /\ op.outcome = outcome

\* C29: the admission queue is first in, first out: a successful
\* admitPatient puts the new patient behind all those waiting, a successful
\* dischargePatient removes the patient at the front, who was admitted
\* before all the others waiting, and both leave the others in their order.
C29_AdmissionIsFIFO ==
    [][/\ Admission(lastOp', "ok") =>
            /\ pa'.currentSize = pa.currentSize + 1
            /\ SubSeq(Waiting(pa'), 1, pa.currentSize) = Waiting(pa)
            /\ Waiting(pa')[pa'.currentSize].id = lastOp'.idx
       /\ Discharge(lastOp', "ok") =>
            /\ pa.currentSize > 0
            /\ lastOp'.idx = Waiting(pa)[1].id
            /\ Waiting(pa') = Tail(Waiting(pa))
       /\ lastOp'.op \in {"admit", "discharge", "viewQueue", "searchId"} =>
            \A i, j \in 1..pa'.currentSize :
                i < j => Waiting(pa')[i].id < Waiting(pa')[j].id]_vars

\* C29 witness: a patient has been discharged from a queue that wraps around
\* the end of the array, and two patients are still waiting.
C29_Witness ==
    /\ Discharge(lastOp, "ok")
    /\ pa.currentSize = 2 /\ pa.rear <= pa.front /\ pa.rear > 0

\* C30: admitPatient on a full queue or with an empty name or condition, and
\* dischargePatient on an empty queue, fail and leave front, rear,
\* currentSize, nextId and the contents of the queue as they were.
C30_AdmissionRejectionsChangeNothing ==
    [][/\ (lastOp'.op = "admit" /\ isFull(pa)) => lastOp'.outcome = "full"
       /\ (lastOp'.op = "discharge" /\ isEmpty(pa)) => lastOp'.outcome = "empty"
       /\ (lastOp'.op \in {"admit", "discharge"} /\ lastOp'.outcome # "ok") =>
              /\ pa' = pa
              /\ lastOp'.outcome \in {"full", "invalid", "empty"}
              /\ lastOp'.outcome = "full" => isFull(pa)
              /\ lastOp'.outcome = "empty" => isEmpty(pa)]_vars

\* C30 witness: admitPatient has been refused on a full queue that wraps
\* around the end of the array.
C30_Witness ==
    /\ Admission(lastOp, "full")
    /\ pa.currentSize = MAX_PATIENTS /\ pa.front > 0

\* C28: a restart of the supply manager (every change has been saved, the
\* file is loaded at construction) leaves the stack with the same supplies in
\* the same order from the top down, so that useLastAddedSupply takes the
\* same supply before and after.
C28_RestartKeepsStackOrder ==
    [][(lastOp'.op = "restartSupply" /\ lastOp.op \in {"addSupply", "useSupply"}
            /\ lastOp.outcome = "ok") =>
          ms'.top_ = ms.top_]_vars

SupplyOp(op, name, outcome) == op.op = name /\ op.outcome = outcome

\* C31: the supply stack is last in, first out: a successful addSupply puts
\* the new supply on top of the others, a successful useLastAddedSupply takes
\* the supply on top, the one added last of those in the stack, and leaves the
\* others as they were; on an empty stack useLastAddedSupply fails and
\* changes neither the stack nor nextId_ nor the files.
C31_SupplyStackIsLIFO ==
    [][/\ SupplyOp(lastOp', "addSupply", "ok") =>
            /\ Len(ms'.top_) = Len(ms.top_) + 1
            /\ Tail(ms'.top_) = ms.top_
            /\ ms'.top_[1].id = lastOp'.idx
       /\ (lastOp'.op = "useSupply" /\ ms.top_ # <<>>) =>
            /\ lastOp'.outcome = "ok"
            /\ lastOp'.idx = ms.top_[1].id
            /\ ms'.top_ = Tail(ms.top_)
       /\ (lastOp'.op = "useSupply" /\ ms.top_ = <<>>) =>
            /\ lastOp'.outcome = "empty"
            /\ ms' = ms /\ supplyFiles' = supplyFiles]_vars

\* C31 witness: the supply added last has been used, and two supplies added
\* before it are still in the stack, the later of them on top.
C31_Witness ==
    /\ SupplyOp(lastOp, "useSupply", "ok")
    /\ Len(ms.top_) = 2 /\ ms.top_[1].id > ms.top_[2].id
    /\ lastOp.idx > ms.top_[1].id

\* C32: nextId_ is greater than every id in the stack and does not decrease
\* within a session; a supply added by addSupply gets an id that no supply in
\* the stack has, also after supplies were used; an addSupply that is
\* rejected leaves the stack and nextId_ as they were.
C32_SupplyIDs ==
    /\ [](\A i \in 1..Len(ms.top_) : ms.top_[i].id < ms.nextId_)
    /\ [][lastOp'.op \in {"addSupply", "useSupply", "viewSupplies"} =>
             /\ ms'.nextId_ >= ms.nextId_
             /\ SupplyOp(lastOp', "addSupply", "ok") =>
                    \A i \in 1..Len(ms.top_) : ms.top_[i].id # ms'.top_[1].id
             /\ (lastOp'.op = "addSupply" /\ lastOp'.outcome # "ok") =>
                    /\ lastOp'.outcome \in {"noNumber", "invalid"}
                    /\ ms' = ms]_vars

\* C32 witness: a supply has been added after the supply with the highest id
\* was used: the new id is at least two above every id left in the stack.
C32_Witness ==
    /\ SupplyOp(lastOp, "addSupply", "ok")
    /\ Len(ms.top_) >= 2
    /\ \A i \in 2..Len(ms.top_) : ms.top_[i].id + 2 <= ms.top_[1].id

\* C36: a successful updatePriority leaves the cases other than the updated
\* one in the order they had: the store without the updated case is the same
\* sequence before and after.
C36_UpdateKeepsOrderOfOthers ==
    [][Updated(lastOp') =>
          /\ lastOp'.idx \in 1..Len(cases) /\ lastOp'.pos \in 1..Len(cases')
          /\ Without(cases', lastOp'.pos) = Without(cases, lastOp'.idx)]_vars

\* C36 witness: an update has taken the last case of a full store to the
\* front, past two cases of one priority.
C36_Witness ==
    /\ Updated(lastOp) /\ size = MAX_CASES
    /\ lastOp.idx = MAX_CASES /\ lastOp.pos = 1
    /\ cases[2].priority = cases[3].priority
    /\ cases[2].patientID # cases[3].patientID

\* C37: a successful updatePriority by name sets the priority of one case,
\* the first in store order whose name equals the name typed up to the case of
\* letters; every other case, those of the same name included, keeps its
\* priority. When no name matches, the store is left as it is.
C37_UpdateByNameTakesFirstMatch ==
    [][lastOp'.op = "update" =>
          IF Updated(lastOp')
          THEN lastOp'.method = 2 =>
               /\ lastOp'.idx \in 1..Len(cases)
               /\ \E name \in UpdateNames :
                     /\ EqualIgnoringCase(name, cases[lastOp'.idx].patientName)
                     /\ \A k \in 1..(lastOp'.idx - 1) :
                            ~EqualIgnoringCase(name, cases[k].patientName)
               /\ cases'[lastOp'.pos] = [cases[lastOp'.idx] EXCEPT !.priority = lastOp'.p]
               /\ Without(cases', lastOp'.pos) = Without(cases, lastOp'.idx)
          ELSE cases' = cases]_vars

\* C37 witness: an update by name has changed the priority of the first of
\* two cases of one name, and the second has another priority.
C37_Witness ==
    /\ Updated(lastOp) /\ lastOp.method = 2
    /\ \E k \in 1..size :
          /\ k # lastOp.pos
          /\ EqualIgnoringCase(cases[k].patientName, cases[lastOp.pos].patientName)
          /\ cases[k].priority # cases[lastOp.pos].priority
          /\ cases[k].patientID # cases[lastOp.pos].patientID

AmbulanceOp(op, name, outcome) == op.op = name /\ op.outcome = outcome

\* The sequence s turned k places: what was at place k + 1 comes first.
Turned(s, k) == SubSeq(s, k + 1, Len(s)) \o SubSeq(s, 1, k)

\* C33: on a roster of two or more rotateShift makes the ambulance behind
\* the head the new head and the old head the new tail and keeps the cyclic
\* order; in a run of consecutive rotations the heads taken off are the
\* ambulances of the roster in rotation order, each one once, and after as
\* many rotations as there are ambulances the roster is in its original
\* order; on an empty roster or a roster of one rotateShift fails and changes
\* nothing.
C33_RotationIsRoundRobin ==
    /\ [](rota.heads # <<>> =>
             /\ Len(rota.start) = Len(ad.roster)
             /\ Len(rota.heads) <= Len(rota.start)
             /\ rota.heads = SubSeq(rota.start, 1, Len(rota.heads))
             /\ \A i, j \in 1..Len(rota.heads) : i # j => rota.heads[i] # rota.heads[j]
             /\ RosterIDs(ad.roster) = Turned(rota.start, Len(rota.heads) % Len(rota.start))
             /\ Len(rota.heads) = Len(rota.start) =>
                    (RosterIDs(ad.roster) = rota.start /\ Range(rota.heads) = Range(rota.start)))
    /\ [][lastOp'.op = "rotate" =>
             IF Len(ad.roster) >= 2
             THEN /\ lastOp'.outcome = "ok"
                  /\ Len(ad'.roster) = Len(ad.roster)
                  /\ ad'.roster[1] = ad.roster[2]
                  /\ ad'.roster[Len(ad.roster)] = ad.roster[1]
                  /\ \A i \in 1..(Len(ad.roster) - 1) : ad'.roster[i] = ad.roster[i + 1]
                  /\ lastOp'.idx = ad'.roster[1].id
                  /\ ad'.nextId = ad.nextId
             ELSE /\ lastOp'.outcome \in {"empty", "single"}
                  /\ ad' = ad /\ rosterFile' = rosterFile]_vars

\* C33 witness: three consecutive rotations have taken a roster of three
\* ambulances once round.
C33_Witness ==
    /\ AmbulanceOp(lastOp, "rotate", "ok")
    /\ Len(ad.roster) = 3 /\ Len(rota.heads) = 3
    /\ RosterIDs(ad.roster) = rota.start

\* C34: registerAmbulance fails, leaving the roster, nextId and the file as
\* they were, when the registration or the driver is empty or the
\* registration is that of an ambulance in the roster; otherwise it puts the
\* new ambulance behind the tail, the others staying in place, with an id that
\* no ambulance in the roster has and that the roster has not held before in
\* the session.
C34_RegisterRejectsAndAppends ==
    [][lastOp'.op = "register" =>
          IF lastOp'.outcome = "ok"
          THEN /\ Len(ad'.roster) = Len(ad.roster) + 1
               /\ SubSeq(ad'.roster, 1, Len(ad.roster)) = ad.roster
               /\ ad'.roster[Len(ad'.roster)].id = lastOp'.idx
               /\ ad'.roster[Len(ad'.roster)].vehicleReg # <<>>
               /\ ad'.roster[Len(ad'.roster)].driverName # <<>>
               /\ \A i \in 1..Len(ad.roster) :
                     /\ ad.roster[i].vehicleReg # ad'.roster[Len(ad'.roster)].vehicleReg
                     /\ ad.roster[i].id # lastOp'.idx
               /\ lastOp'.idx \notin rota.given
               /\ ad'.nextId > lastOp'.idx
          ELSE /\ \/ lastOp'.pos = <<>>
                  \/ lastOp'.p = <<>>
                  \/ \E i \in 1..Len(ad.roster) : ad.roster[i].vehicleReg = lastOp'.pos
               /\ ad' = ad /\ rosterFile' = rosterFile]_vars

\* C34 witness: an ambulance has been registered behind another after the
\* ambulance with the id before its own was removed.
C34_Witness ==
    /\ AmbulanceOp(lastOp, "register", "ok")
    /\ Len(ad.roster) = 2
    /\ lastOp.idx - 1 \in rota.given
    /\ ad.roster[1].id < lastOp.idx - 1

\* C38: after every successful registerAmbulance, removeAmbulance,
\* assignShift and rotateShift a restart would load from the roster file the
\* ambulances of the roster in the same order from the same head.
C38_FileHoldsRotationOrder ==
    [][(lastOp'.op \in {"register", "remove", "assign", "rotate"} /\ lastOp'.outcome = "ok") =>
          RosterIDs(Ambulance(rosterFile').ad.roster) = RosterIDs(ad'.roster)]_vars

\* The lines of the feed that the import reads an id from.
FeedRecords(file) ==
    {i \in 1..Len(file.lines) :
        Len(FeedFields(file.lines[i])) = 3 /\ stoi(FeedFields(file.lines[i])[1]).ok}

\* C35: after a startup, every record of the intake feed whose id is the id
\* of a stored case is that case's patient: a stored case of that id has the
\* patientName of the record. So a record that the import skipped because its
\* id was in the store is never another patient.
C35_DedupSkipsOnlyTheSamePatient ==
    [][(lastOp'.op = "startup" /\ lastOp'.outcome = "ok") =>
          \A i \in FeedRecords(feedFile) :
              (\E k \in 1..Len(cases') :
                   cases'[k].patientID = stoi(FeedFields(feedFile.lines[i])[1]).val)
                 => \E k \in 1..Len(cases') :
                       /\ cases'[k].patientID = stoi(FeedFields(feedFile.lines[i])[1]).val
                       /\ cases'[k].patientName = FeedFields(feedFile.lines[i])[2]]_vars

====
